---- MODULE Spec2Model ----
(***************************************************************************)
(* A model of the OpenAPI parsing core of documentation-generator-action:  *)
(* src/src/openapi/openapi_parser.py (OpenAPIParser, EndpointData) and     *)
(* src/src/openapi/example_generator.py (ExampleGenerator).                *)
(*                                                                         *)
(* Python values are modelled as tagged records, so that values of         *)
(* different Python types can be compared and stored side by side:         *)
(*   None, B(bool), N(int), F(float literal), S(str), L(list), D(dict).    *)
(* A dict is the sequence of its <<key, value>> pairs in insertion order   *)
(* (Python dicts and YAML mappings keep it), keys being strings.  Raise    *)
(* stands for an exception in flight: an operator that returns Raise       *)
(* models a call that does not return.                                     *)
(***************************************************************************)
EXTENDS Integers, Sequences, FiniteSets, TLC

VARIABLES
    spec,            \* OpenAPIParser.spec: the loaded document (a dict value)
    endpoints,       \* what the last parse_all_endpoints() call returned
    prev_endpoints,  \* what the call before it returned
    parses,          \* number of parse_all_endpoints() calls so far
    rr,              \* the _resolve_ref call in progress (its frame)
    gen,             \* the generate_from_schema call last made
    toc,             \* the TOCGenerator and what generate_toc_for_file last returned
    docs,            \* the DocsJsonManager: its _data and its last call
    ex,              \* the extract_existing_example call last made
    dg               \* the shared DocGenerator and the workers that use it

vars == <<spec, endpoints, prev_endpoints, parses, rr, gen, toc, docs, ex, dg>>

-----------------------------------------------------------------------------
(* Bounds of the model *)

MaxPaths == 2        \* paths per document
MaxParses == 2       \* parse_all_endpoints() calls per parser
MaxDepth == 4        \* largest depth budget handed to _resolve_ref
MaxExtra == 5        \* non-required properties of the wide object schema

-----------------------------------------------------------------------------
(* Python values *)

None == [t |-> "null"]
B(b) == [t |-> "bool", b |-> b]
N(n) == [t |-> "int", n |-> n]
F(s) == [t |-> "float", s |-> s]
S(s) == [t |-> "str", s |-> s]
L(xs) == [t |-> "list", xs |-> xs]
D(kv) == [t |-> "dict", kv |-> kv]
Raise == [t |-> "raise"]
NotRun == [t |-> "notrun"]

IsDict(v) == v.t = "dict"
IsList(v) == v.t = "list"
IsStr(v) == v.t = "str"
IsInt(v) == v.t = "int"

\* bool(v): Python truthiness
Truthy(v) ==
    CASE v.t = "null" -> FALSE
      [] v.t = "bool" -> v.b
      [] v.t = "int" -> v.n # 0
      [] v.t = "float" -> v.s \notin {"0.0", "-0.0"}
      [] v.t = "str" -> v.s # ""
      [] v.t = "list" -> v.xs # <<>>
      [] v.t = "dict" -> v.kv # <<>>
      [] OTHER -> FALSE

\* key in d, for a dict d
DHas(d, k) == \E i \in 1..Len(d.kv) : d.kv[i][1] = k

\* d.get(k, default), for a dict d
DGet(d, k, default) ==
    IF DHas(d, k)
    THEN d.kv[CHOOSE i \in 1..Len(d.kv) : d.kv[i][1] = k][2]
    ELSE default

\* d[k] = v: an existing key keeps its position, a new key goes last
DSet(d, k, v) ==
    IF DHas(d, k)
    THEN LET i == CHOOSE j \in 1..Len(d.kv) : d.kv[j][1] = k
         IN D(SubSeq(d.kv, 1, i - 1) \o << <<k, v>> >> \o SubSeq(d.kv, i + 1, Len(d.kv)))
    ELSE D(Append(d.kv, <<k, v>>))

\* the value of e, worked out once, for s = {e}
TheOnly(s) == CHOOSE x \in s : TRUE

\* list(d.keys())
DKeys(d) == [i \in 1..Len(d.kv) |-> d.kv[i][1]]

-----------------------------------------------------------------------------
(* Python strings: TLA+ strings, character by character *)

\* sub in s
Contains(s, sub) ==
    \E i \in 1..(Len(s) - Len(sub) + 1) : SubSeq(s, i, i + Len(sub) - 1) = sub

\* s.startswith(p)
StartsWith(s, p) == Len(s) >= Len(p) /\ SubSeq(s, 1, Len(p)) = p

\* s.split(sep)[-1], for a one-character sep
RECURSIVE LastSegment(_, _)
LastSegment(s, sep) ==
    IF \E i \in 1..Len(s) : SubSeq(s, i, i) = sep
    THEN LET i == CHOOSE j \in 1..Len(s) :
                      /\ SubSeq(s, j, j) = sep
                      /\ \A k \in (j + 1)..Len(s) : SubSeq(s, k, k) # sep
         IN SubSeq(s, i + 1, Len(s))
    ELSE s

\* s.replace(old, new): leftmost, non-overlapping occurrences
RECURSIVE Replace(_, _, _)
Replace(s, old, new) ==
    IF Len(s) < Len(old) \/ old = "" THEN s
    ELSE IF SubSeq(s, 1, Len(old)) = old
         THEN new \o Replace(SubSeq(s, Len(old) + 1, Len(s)), old, new)
         ELSE SubSeq(s, 1, 1) \o Replace(SubSeq(s, 2, Len(s)), old, new)

UpperChars == "ABCDEFGHIJKLMNOPQRSTUVWXYZ"
LowerChars == "abcdefghijklmnopqrstuvwxyz"

LowerChar(c) ==
    IF \E i \in 1..26 : SubSeq(UpperChars, i, i) = c
    THEN LET i == CHOOSE j \in 1..26 : SubSeq(UpperChars, j, j) = c
         IN SubSeq(LowerChars, i, i)
    ELSE c

\* s.lower()
RECURSIVE Lower(_)
Lower(s) == IF s = "" THEN "" ELSE LowerChar(SubSeq(s, 1, 1)) \o Lower(SubSeq(s, 2, Len(s)))

UpperChar(c) ==
    IF \E i \in 1..26 : SubSeq(LowerChars, i, i) = c
    THEN LET i == CHOOSE j \in 1..26 : SubSeq(LowerChars, j, j) = c
         IN SubSeq(UpperChars, i, i)
    ELSE c

\* s.upper()
RECURSIVE Upper(_)
Upper(s) == IF s = "" THEN "" ELSE UpperChar(SubSeq(s, 1, 1)) \o Upper(SubSeq(s, 2, Len(s)))

\* s.rstrip(c), for a one-character c
RECURSIVE RStrip(_, _)
RStrip(s, c) ==
    IF s # "" /\ SubSeq(s, Len(s), Len(s)) = c THEN RStrip(SubSeq(s, 1, Len(s) - 1), c) ELSE s

\* the characters of the strings compared here, by code point
CodePoints == " -./0123456789ABCDEFGHIJKLMNOPQRSTUVWXYZ_abcdefghijklmnopqrstuvwxyz{}"

CharRank(c) == CHOOSE i \in 1..Len(CodePoints) : SubSeq(CodePoints, i, i) = c

\* a < b, for strings
RECURSIVE StrLess(_, _)
StrLess(a, b) ==
    IF b = "" THEN FALSE
    ELSE IF a = "" THEN TRUE
    ELSE IF SubSeq(a, 1, 1) = SubSeq(b, 1, 1)
         THEN StrLess(SubSeq(a, 2, Len(a)), SubSeq(b, 2, Len(b)))
    ELSE CharRank(SubSeq(a, 1, 1)) < CharRank(SubSeq(b, 1, 1))

IsSpaceChar(c) == c \in {" ", "\n", "\t"}

\* s.strip()
RECURSIVE Strip(_)
Strip(s) ==
    IF s = "" THEN ""
    ELSE IF IsSpaceChar(SubSeq(s, 1, 1)) THEN Strip(SubSeq(s, 2, Len(s)))
    ELSE IF IsSpaceChar(SubSeq(s, Len(s), Len(s))) THEN Strip(SubSeq(s, 1, Len(s) - 1))
    ELSE s

DigitChars == "0123456789"

\* str(n), for an int n
RECURSIVE IntToStr(_)
IntToStr(n) ==
    IF n < 0 THEN "-" \o IntToStr(-n)
    ELSE IF n < 10 THEN SubSeq(DigitChars, n + 1, n + 1)
    ELSE IntToStr(n \div 10) \o SubSeq(DigitChars, (n % 10) + 1, (n % 10) + 1)

-----------------------------------------------------------------------------
(* Python operations on values of any type.  Each comes as a pair: when    *)
(* the operation raises (TypeError, AttributeError, KeyError, IndexError), *)
(* and what it yields when it does not.                                    *)

\* for x in v
IterRaises(v) == v.t \notin {"list", "dict", "str"}
Iter(v) ==
    CASE v.t = "list" -> v.xs
      [] v.t = "dict" -> [i \in 1..Len(v.kv) |-> S(v.kv[i][1])]
      [] v.t = "str" -> [i \in 1..Len(v.s) |-> S(SubSeq(v.s, i, i))]
      [] OTHER -> <<>>

\* x in c
InRaises(x, c) ==
    CASE c.t = "dict" -> x.t \in {"list", "dict"}
      [] c.t = "list" -> FALSE
      [] c.t = "str" -> x.t # "str"
      [] OTHER -> TRUE
In(x, c) ==
    CASE c.t = "dict" -> x.t = "str" /\ DHas(c, x.s)
      [] c.t = "list" -> \E i \in 1..Len(c.xs) : c.xs[i] = x
      [] c.t = "str" -> x.t = "str" /\ Contains(c.s, x.s)
      [] OTHER -> FALSE

\* v[0]
Index0(v) ==
    CASE v.t = "list" /\ v.xs # <<>> -> v.xs[1]
      [] v.t = "str" /\ v.s # "" -> S(SubSeq(v.s, 1, 1))
      [] OTHER -> Raise

\* a or b
PyOr(a, b) == IF Truthy(a) THEN a ELSE b

\* f"{v}" for the scalars; containers are rendered by their kind only
PyStr(v) ==
    CASE v.t = "str" -> v.s
      [] v.t = "int" -> IntToStr(v.n)
      [] v.t = "float" -> v.s
      [] v.t = "bool" -> IF v.b THEN "True" ELSE "False"
      [] v.t = "null" -> "None"
      [] v.t = "list" -> "[...]"
      [] OTHER -> "{...}"

-----------------------------------------------------------------------------
(* ExampleGenerator (example_generator.py).  uuid.uuid4() and              *)
(* datetime.utcnow() are the generator's two sources of nondeterminism:    *)
(* rnd is what they yield during one top-level call,                       *)
(*   rnd.uuid = str(uuid.uuid4()), rnd.iso = utcnow().isoformat(),         *)
(*   rnd.date = utcnow().date().isoformat(),                               *)
(*   rnd.ms = int(utcnow().timestamp() * 1000) (in model clock units).     *)

Oracles ==
    { [uuid |-> "3f2b8c1e-0000-4000-8000-000000000001",
       iso |-> "2024-01-01T00:00:00.000001", date |-> "2024-01-01", ms |-> 1700000001],
      [uuid |-> "9a7d5e2f-0000-4000-8000-000000000002",
       iso |-> "2024-01-02T00:00:00.000002", date |-> "2024-01-02", ms |-> 1700000002] }

\* the cap on non-required properties, line 184
OptionalCap == 3

\* as UnderCap, were a property let in at the cap too
UnderCapInclusive(optional_count) == optional_count <= OptionalCap

\* optional_count < 3, line 184
UnderCap(optional_count) == optional_count < OptionalCap

ArrayCap == 2

\* _generate_string_example(fmt, name, schema)
GenerateStringExample(fmt, name, schema, rnd) ==
    CASE fmt = S("uuid") -> S(rnd.uuid)
      [] fmt = S("date-time") -> S(rnd.iso \o "Z")
      [] fmt = S("date") -> S(rnd.date)
      [] fmt = S("email") -> S("user@example.com")
      [] fmt = S("uri") \/ fmt = S("url") -> S("https://example.com/resource")
      [] fmt = S("binary") -> S("(binary data)")
      [] fmt = S("int64") -> S(IntToStr(rnd.ms))
      [] OTHER ->
         IF ~Truthy(name) THEN S("example-string")
         ELSE IF ~IsStr(name) THEN Raise
         ELSE LET name_lower == Lower(name.s)
              IN CASE Contains(name_lower, "id") -> S(rnd.uuid)
                   [] Contains(name_lower, "name") -> S("Example Name")
                   [] Contains(name_lower, "description") -> S("Example description")
                   [] Contains(name_lower, "path") -> S("example/path/to/resource")
                   [] Contains(name_lower, "url") -> S("https://example.com")
                   [] Contains(name_lower, "email") -> S("user@example.com")
                   [] Contains(name_lower, "token") -> S("eyJhbGciOiJIUzI1NiIsInR5cCI6IkpXVCJ9...")
                   [] OTHER -> S("example-string")

\* a name "suggests" a keyword: name and kw in name.lower()
NameHas(name, kw) == Truthy(name) /\ IsStr(name) /\ Contains(Lower(name.s), kw)

\* as GenerateIntegerExample, were the default integer drawn from the clock
GenerateIntegerExampleFromClock(fmt, name, rnd) ==
    IF Truthy(name) /\ ~IsStr(name) THEN Raise
    ELSE IF fmt = S("int64") THEN N(rnd.ms)
    ELSE N(rnd.ms % 100)

\* _generate_integer_example(fmt, name)
GenerateIntegerExample(fmt, name, rnd) ==
    IF Truthy(name) /\ ~IsStr(name) THEN Raise
    ELSE IF fmt = S("int64")
    THEN IF NameHas(name, "timestamp") \/ NameHas(name, "created") \/ NameHas(name, "updated")
         THEN N(rnd.ms)
         ELSE N(1234567890)
    ELSE CASE NameHas(name, "count") \/ NameHas(name, "limit") -> N(10)
           [] NameHas(name, "offset") -> N(0)
           [] NameHas(name, "id") -> N(12345)
           [] NameHas(name, "port") -> N(8080)
           [] OTHER -> N(42)

\* _generate_number_example(fmt, name)
GenerateNumberExample(fmt, name) ==
    IF Truthy(name) /\ ~IsStr(name) THEN Raise
    ELSE IF fmt = S("double")
    THEN IF NameHas(name, "score") THEN F("0.85") ELSE F("3.14159")
    ELSE IF NameHas(name, "score") THEN F("0.85") ELSE F("2.5")

\* dict.update(other) on merged['properties']
RECURSIVE UpdateFrom(_, _, _)
UpdateFrom(d, kv, i) ==
    IF i > Len(kv) THEN d ELSE UpdateFrom(DSet(d, kv[i][1], kv[i][2]), kv, i + 1)

\* the body of _merge_all_of's loop, for one member schema
MergeMember(merged, schema) ==
    IF ~IsDict(schema) THEN Raise
    ELSE
    LET props == DGet(schema, "properties", None)
        reqs == DGet(schema, "required", None)
        m0 == IF DHas(schema, "properties") /\ ~DHas(merged, "properties")
              THEN DSet(merged, "properties", D(<<>>)) ELSE merged
        m1 == IF ~DHas(schema, "properties") THEN m0
              ELSE IF IsDict(props)
                   THEN DSet(m0, "properties", UpdateFrom(DGet(m0, "properties", None), props.kv, 1))
              ELSE IF props \in {L(<<>>), S("")} THEN m0
              ELSE Raise
        m2 == IF m1 = Raise \/ ~DHas(schema, "required") THEN m1
              ELSE IF IterRaises(reqs) THEN Raise
              ELSE DSet(m1, "required",
                        L(DGet(m1, "required", L(<<>>)).xs \o Iter(reqs)))
        others == SelectSeq(schema.kv, LAMBDA e : e[1] \notin {"properties", "required"})
    IN IF m2 = Raise THEN Raise ELSE UpdateFrom(m2, others, 1)

RECURSIVE MergeLoop(_, _, _)
MergeLoop(merged, members, i) ==
    IF i > Len(members) THEN merged
    ELSE LET m == MergeMember(merged, members[i])
         IN IF m = Raise THEN Raise ELSE MergeLoop(m, members, i + 1)

\* as MergeAllOf, were the last member of schemas left out
MergeAllOfButLast(schemas) ==
    IF IterRaises(schemas) THEN Raise
    ELSE IF Len(Iter(schemas)) = 0 THEN D(<<>>)
    ELSE MergeLoop(D(<<>>), SubSeq(Iter(schemas), 1, Len(Iter(schemas)) - 1), 1)

\* _merge_all_of(schemas)
MergeAllOf(schemas) ==
    IF IterRaises(schemas) THEN Raise ELSE MergeLoop(D(<<>>), Iter(schemas), 1)

RECURSIVE GenerateFromSchema(_, _, _)
RECURSIVE RequiredLoop(_, _, _, _, _)
RECURSIVE OptionalLoop(_, _, _, _, _, _)

\* as ArrayCount, were the count not capped
ArrayCountUncapped(min_items) ==
    CASE min_items.t = "int" -> IF min_items.n > 1 THEN min_items.n ELSE 1
      [] min_items.t = "bool" -> 1
      [] OTHER -> -1

\* count in _generate_array_example: min(max(minItems, 1), 2)
ArrayCount(min_items) ==
    CASE min_items.t = "int" ->
            LET count == IF min_items.n > 1 THEN min_items.n ELSE 1
            IN IF count < ArrayCap THEN count ELSE ArrayCap
      [] min_items.t = "bool" -> 1
      [] OTHER -> -1

\* _generate_array_example(schema, name)
GenerateArrayExample(schema, name, rnd) ==
    LET items_schema == DGet(schema, "items", D(<<>>))
        count == ArrayCount(DGet(schema, "minItems", N(1)))
        item == GenerateFromSchema(items_schema, name, rnd)
    IN IF count < 0 \/ item = Raise THEN Raise
       ELSE L([i \in 1..count |-> item])

\* first loop of _generate_object_example: the required fields
RequiredLoop(properties, reqs, i, example, rnd) ==
    IF i > Len(reqs) THEN example
    ELSE LET prop_name == reqs[i]
         IN IF InRaises(prop_name, properties) THEN Raise
            ELSE IF ~In(prop_name, properties)
                 THEN RequiredLoop(properties, reqs, i + 1, example, rnd)
            ELSE LET v == GenerateFromSchema(DGet(properties, prop_name.s, None), prop_name, rnd)
                 IN IF v = Raise THEN Raise
                    ELSE RequiredLoop(properties, reqs, i + 1,
                                      DSet(example, prop_name.s, v), rnd)

\* second loop of _generate_object_example: up to 3 optional fields
OptionalLoop(properties, required_fields, i, example, optional_count, rnd) ==
    IF i > Len(properties.kv) THEN example
    ELSE LET prop_name == properties.kv[i][1]
             prop_schema == properties.kv[i][2]
         IN IF ~In(S(prop_name), required_fields) /\ UnderCap(optional_count)
            THEN LET v == GenerateFromSchema(prop_schema, S(prop_name), rnd)
                 IN IF v = Raise THEN Raise
                    ELSE OptionalLoop(properties, required_fields, i + 1,
                                      DSet(example, prop_name, v), optional_count + 1, rnd)
            ELSE OptionalLoop(properties, required_fields, i + 1, example,
                              optional_count, rnd)

\* _generate_object_example(schema)
GenerateObjectExample(schema, rnd) ==
    LET properties == DGet(schema, "properties", D(<<>>))
        required_fields == DGet(schema, "required", L(<<>>))
    IN IF IterRaises(required_fields) \/ ~IsDict(properties) THEN Raise
       ELSE LET example == RequiredLoop(properties, Iter(required_fields), 1, D(<<>>), rnd)
            IN IF example = Raise THEN Raise
               ELSE OptionalLoop(properties, required_fields, 1, example, 0, rnd)

\* as BooleanExample, were the boolean example true
BooleanExampleTrue == B(TRUE)

\* the example of a boolean, line 56
BooleanExample == B(FALSE)

\* as GenerateByType, were a type that is none of the six taken as string
GenerateByTypeStringElse(schema, property_name, rnd) ==
    LET schema_type == DGet(schema, "type", S("string"))
        schema_format == DGet(schema, "format", None)
    IN CASE schema_type = S("integer") ->
                GenerateIntegerExample(schema_format, property_name, rnd)
         [] schema_type = S("number") -> GenerateNumberExample(schema_format, property_name)
         [] schema_type = S("boolean") -> BooleanExample
         [] schema_type = S("array") -> GenerateArrayExample(schema, property_name, rnd)
         [] schema_type = S("object") -> GenerateObjectExample(schema, rnd)
         [] OTHER -> GenerateStringExample(schema_format, property_name, schema, rnd)

\* the dispatch on schema_type, lines 48-62
GenerateByType(schema, property_name, rnd) ==
    LET schema_type == DGet(schema, "type", S("string"))
        schema_format == DGet(schema, "format", None)
    IN CASE schema_type = S("string") ->
                GenerateStringExample(schema_format, property_name, schema, rnd)
         [] schema_type = S("integer") ->
                GenerateIntegerExample(schema_format, property_name, rnd)
         [] schema_type = S("number") -> GenerateNumberExample(schema_format, property_name)
         [] schema_type = S("boolean") -> BooleanExample
         [] schema_type = S("array") -> GenerateArrayExample(schema, property_name, rnd)
         [] schema_type = S("object") -> GenerateObjectExample(schema, rnd)
         [] OTHER -> None

\* as GenerateNoExample, were allOf looked at before oneOf and anyOf
GenerateNoExampleAllOfFirst(schema, property_name, rnd) ==
    LET enum_values == DGet(schema, "enum", None)
        options == PyOr(DGet(schema, "oneOf", None), DGet(schema, "anyOf", None))
    IN IF Truthy(enum_values) THEN Index0(enum_values)
       ELSE IF DHas(schema, "allOf")
            THEN LET merged == MergeAllOf(DGet(schema, "allOf", None))
                 IN IF merged = Raise THEN Raise
                    ELSE GenerateFromSchema(merged, property_name, rnd)
       ELSE IF (DHas(schema, "oneOf") \/ DHas(schema, "anyOf")) /\ Truthy(options)
            THEN IF Index0(options) = Raise THEN Raise
                 ELSE GenerateFromSchema(Index0(options), property_name, rnd)
       ELSE GenerateByType(schema, property_name, rnd)

\* generate_from_schema past its first test: enum, composition, type
GenerateNoExample(schema, property_name, rnd) ==
    LET enum_values == DGet(schema, "enum", None)
        options == PyOr(DGet(schema, "oneOf", None), DGet(schema, "anyOf", None))
    IN IF Truthy(enum_values) THEN Index0(enum_values)
       ELSE IF (DHas(schema, "oneOf") \/ DHas(schema, "anyOf")) /\ Truthy(options)
            THEN IF Index0(options) = Raise THEN Raise
                 ELSE GenerateFromSchema(Index0(options), property_name, rnd)
       ELSE IF DHas(schema, "allOf")
            THEN LET merged == MergeAllOf(DGet(schema, "allOf", None))
                 IN IF merged = Raise THEN Raise
                    ELSE GenerateFromSchema(merged, property_name, rnd)
       ELSE GenerateByType(schema, property_name, rnd)

\* as GenerateFromSchema, were the example tested for truth, not for presence
GenerateFromSchemaTruthyExample(schema, property_name, rnd) ==
    IF ~IsDict(schema) THEN Raise
    ELSE IF Truthy(DGet(schema, "example", None)) THEN DGet(schema, "example", None)
    ELSE GenerateNoExample(schema, property_name, rnd)

\* generate_from_schema(schema, property_name)
GenerateFromSchema(schema, property_name, rnd) ==
    IF ~IsDict(schema) THEN Raise
    ELSE IF DHas(schema, "example") THEN DGet(schema, "example", None)
    ELSE GenerateNoExample(schema, property_name, rnd)

\* The writes of the generator.  _merge_all_of writes into merged, a dict
\* made at line 66 (`merged = {}`), into merged['properties'], a dict made at
\* line 70, and into merged['required'], a list made at line 74; no other
\* statement of the generator writes into an object it did not make (lines
\* 164-167, 174, 179 and 185 fill the example being built).  A container is
\* named by its owner: the index of the member of schemas that holds it, 0
\* for one that no member holds.

\* as NewContainer, were the container of the member being merged taken
\* (`merged['properties'] = schema['properties']`)
MemberContainer(i) == i

\* the container lines 70 and 74 give merged while schemas[i] is merged
NewContainer(i) == 0

\* the owner of merged[key]: it is set while the first member that has key
\* is merged, lines 69-70 and 73-74
RECURSIVE ContainerOwner(_, _, _)
ContainerOwner(members, key, i) ==
    IF i > Len(members) THEN 0
    ELSE IF IsDict(members[i]) /\ DHas(members[i], key) THEN NewContainer(i)
    ELSE ContainerOwner(members, key, i + 1)

\* member with merged[key] in the place of its own value, if owned says it
\* is the object the writes went to
WithOwned(member, key, owned, merged) ==
    IF owned THEN DSet(member, key, DGet(merged, key, None)) ELSE member

\* a member of schemas after the call: the writes of lines 71 and 75 are in
\* it if it owns the container written
MemberAfterMerge(members, i, merged) ==
    WithOwned(WithOwned(members[i], "properties",
                        ContainerOwner(members, "properties", 1) = i, merged),
              "required", ContainerOwner(members, "required", 1) = i, merged)

\* the list schemas after _merge_all_of(schemas) returned merged
SchemasAfterMerge(schemas, merged) ==
    IF merged = Raise \/ ~IsList(schemas) THEN schemas
    ELSE L([i \in 1..Len(schemas.xs) |-> MemberAfterMerge(schemas.xs, i, merged)])

\* the i-th property of an object schema is handed to generate_from_schema
\* by _generate_object_example: it is required, or one of the first
\* optional ones (lines 177-186)
PropertyVisited(properties, required_fields, i) ==
    \/ In(S(properties.kv[i][1]), required_fields)
    \/ UnderCap(Cardinality({ j \in 1..(i - 1) :
                                 ~In(S(properties.kv[j][1]), required_fields) }))

RECURSIVE SchemaAfterGenerate(_)

\* the options of oneOf or anyOf: the first one is handed on, line 27
OptionsAfter(options) ==
    IF ~IsList(options) THEN options
    ELSE L(<<SchemaAfterGenerate(options.xs[1])>> \o Tail(options.xs))

\* the properties of an object schema, lines 177-186
PropertiesAfter(properties, required_fields) ==
    D([i \in 1..Len(properties.kv) |->
         IF PropertyVisited(properties, required_fields, i)
         THEN <<properties.kv[i][1], SchemaAfterGenerate(properties.kv[i][2])>>
         ELSE properties.kv[i]])

\* the schema node after generate_from_schema(schema, name): the node
\* itself is only read; the calls it makes are _merge_all_of on its allOf
\* and generate_from_schema on its first option, its items or its properties
SchemaAfterGenerate(schema) ==
    IF ~IsDict(schema) THEN schema
    ELSE IF DHas(schema, "example") \/ Truthy(DGet(schema, "enum", None)) THEN schema
    ELSE IF /\ DHas(schema, "oneOf") \/ DHas(schema, "anyOf")
            /\ Truthy(PyOr(DGet(schema, "oneOf", None), DGet(schema, "anyOf", None)))
         THEN IF Truthy(DGet(schema, "oneOf", None))
              THEN DSet(schema, "oneOf", OptionsAfter(DGet(schema, "oneOf", None)))
              ELSE DSet(schema, "anyOf", OptionsAfter(DGet(schema, "anyOf", None)))
    ELSE IF DHas(schema, "allOf")
         THEN DSet(schema, "allOf", SchemasAfterMerge(DGet(schema, "allOf", None),
                                                      MergeAllOf(DGet(schema, "allOf", None))))
    ELSE IF DGet(schema, "type", S("string")) = S("array") /\ DHas(schema, "items")
         THEN DSet(schema, "items", SchemaAfterGenerate(DGet(schema, "items", None)))
    ELSE IF /\ DGet(schema, "type", S("string")) = S("object")
            /\ DHas(schema, "properties")
            /\ IsDict(DGet(schema, "properties", D(<<>>)))
            /\ ~IterRaises(DGet(schema, "required", L(<<>>)))
         THEN DSet(schema, "properties",
                   PropertiesAfter(DGet(schema, "properties", D(<<>>)),
                                   DGet(schema, "required", L(<<>>))))
    ELSE schema

\* the three places an author-supplied example is looked for in one media
\* object (extract_existing_example, lines 205-220 and 231-242): a record
\* [found, value], or Raise
MediaExample(media_obj) ==
    IF ~IsDict(media_obj) THEN Raise
    ELSE
    LET examples == DGet(media_obj, "examples", D(<<>>))
        schema == DGet(media_obj, "schema", D(<<>>))
    IN IF Truthy(examples)
       THEN IF ~IsDict(examples) \/ ~IsDict(examples.kv[1][2]) THEN Raise
            ELSE [found |-> TRUE, value |-> DGet(examples.kv[1][2], "value", None)]
       ELSE IF DHas(media_obj, "example")
            THEN [found |-> TRUE, value |-> DGet(media_obj, "example", None)]
       ELSE IF InRaises(S("example"), schema) THEN Raise
       ELSE IF In(S("example"), schema)
            THEN IF IsDict(schema)
                 THEN [found |-> TRUE, value |-> DGet(schema, "example", None)]
                 ELSE Raise
       ELSE [found |-> FALSE, value |-> None]

\* for media_type, media_obj in content.items(): the first example found
RECURSIVE ContentExample(_, _)
ContentExample(content, i) ==
    IF i > Len(content.kv) THEN [found |-> FALSE, value |-> None]
    ELSE LET r == MediaExample(content.kv[i][2])
         IN IF r = Raise THEN Raise
            ELSE IF r.found THEN r
            ELSE ContentExample(content, i + 1)

SuccessCodes == <<"200", "201", "202">>

\* for status_code in ['200', '201', '202']
RECURSIVE ResponsesExample(_, _)
ResponsesExample(responses, i) ==
    IF i > Len(SuccessCodes) THEN None
    ELSE IF InRaises(S(SuccessCodes[i]), responses) THEN Raise
    ELSE IF ~In(S(SuccessCodes[i]), responses) THEN ResponsesExample(responses, i + 1)
    ELSE IF ~IsDict(responses) THEN Raise
    ELSE LET response == DGet(responses, SuccessCodes[i], None)
             content == IF IsDict(response) THEN DGet(response, "content", D(<<>>)) ELSE Raise
             r == IF IsDict(content) THEN ContentExample(content, 1) ELSE Raise
         IN IF r = Raise THEN Raise
            ELSE IF r.found THEN r.value
            ELSE ResponsesExample(responses, i + 1)

\* extract_existing_example(operation, location)
ExtractExistingExample(operation, location) ==
    IF location = "requestBody"
    THEN LET request_body == DGet(operation, "requestBody", D(<<>>))
             content == IF IsDict(request_body) THEN DGet(request_body, "content", D(<<>>))
                        ELSE Raise
             r == IF IsDict(content) THEN ContentExample(content, 1) ELSE Raise
         IN IF r = Raise THEN Raise ELSE r.value
    ELSE IF location = "responses"
    THEN ResponsesExample(DGet(operation, "responses", D(<<>>)), 1)
    ELSE None

-----------------------------------------------------------------------------
(* OpenAPIParser (openapi_parser.py) *)

\* EndpointData.__init__
EndpointData ==
    [ path |-> S(""), method |-> S(""), operation_id |-> S(""), summary |-> S(""),
      description |-> S(""), tags |-> L(<<>>),
      path_parameters |-> L(<<>>), query_parameters |-> L(<<>>),
      header_parameters |-> L(<<>>),
      request_body_schema |-> None, request_body_description |-> S(""),
      request_body_parameters |-> L(<<>>), request_body_example |-> None,
      responses |-> D(<<>>), success_response_example |-> None,
      success_status_code |-> None ]

DefaultMaxDepth == 3
SchemaPrefix == "#/components/schemas/"
FallbackSchema == D(<< <<"type", S("object")>> >>)
DepthStub ==
    D(<< <<"type", S("object")>>, <<"description", S("(Max recursion depth reached)")>> >>)

\* components.schemas of the document, or Raise
ComponentsSchemas(doc) ==
    LET components == DGet(doc, "components", D(<<>>))
    IN IF IsDict(components) THEN DGet(components, "schemas", D(<<>>)) ELSE Raise

\* as HasSchemaPrefix, were the prefix looked for anywhere in the path
HasSchemaPrefixAnywhere(ref) == Contains(ref, SchemaPrefix)

\* ref_path.startswith('#/components/schemas/'), line 385
HasSchemaPrefix(ref) == StartsWith(ref, SchemaPrefix)

\* as NextDepth, were the budget handed on undiminished
NextDepthUnchanged(max_depth) == max_depth

\* the depth budget handed to the recursive call, line 398
NextDepth(max_depth) == max_depth - 1

\* One invocation of _resolve_ref(ref_path, max_depth): either it returns
\* (done, with the value returned or raised), or it makes the recursive call
\* of line 398 (ref and depth are that call's arguments).
ResolveStep(doc, ref_path, max_depth) ==
    IF max_depth <= 0 THEN [done |-> TRUE, value |-> DepthStub]
    ELSE IF ~IsStr(ref_path) THEN [done |-> TRUE, value |-> Raise]
    ELSE IF ~HasSchemaPrefix(ref_path.s) THEN [done |-> TRUE, value |-> FallbackSchema]
    ELSE
    LET schema_name == S(LastSegment(ref_path.s, "/"))
        components_schemas == ComponentsSchemas(doc)
    IN IF components_schemas = Raise \/ InRaises(schema_name, components_schemas)
       THEN [done |-> TRUE, value |-> Raise]
       ELSE IF ~In(schema_name, components_schemas)
       THEN [done |-> TRUE, value |-> FallbackSchema]
       ELSE IF ~IsDict(components_schemas) THEN [done |-> TRUE, value |-> Raise]
       ELSE LET schema == DGet(components_schemas, schema_name.s, None)
            IN IF IsDict(schema) /\ DHas(schema, "$ref")
               THEN [done |-> FALSE, ref |-> DGet(schema, "$ref", None),
                     depth |-> NextDepth(max_depth)]
               ELSE [done |-> TRUE, value |-> schema]

\* a value that must be a mapping for the code to go on
DictOrRaise(v) == IF IsDict(v) THEN v ELSE Raise

\* the return or the recursive call of line 398, after one invocation
RECURSIVE ResolveRef(_, _, _)
ResolveFrom(doc, r) == IF r.done THEN r.value ELSE ResolveRef(doc, r.ref, r.depth)

\* _resolve_ref(ref_path, max_depth), run to its return
ResolveRef(doc, ref_path, max_depth) == ResolveFrom(doc, ResolveStep(doc, ref_path, max_depth))

\* as NullableStub, were the suffix left in the type name
NullableStubKeepsSuffix(ref_path) ==
    D(<< <<"type", S("object")>>,
         <<"description",
           S("Optional " \o LastSegment(ref_path.s, "/") \o " object (nullable)")>> >>)

\* the stub of the nullable convention, lines 205-206 and 275-279
NullableStub(ref_path) ==
    LET type_name == Replace(LastSegment(ref_path.s, "/"), "_Nullable", "")
    IN D(<< <<"type", S("object")>>,
            <<"description", S("Optional " \o type_name \o " object (nullable)")>> >>)

\* param_type of lines 211-214 and 284-287
TypeLabel(schema) ==
    LET param_type == DGet(schema, "type", S("string"))
        param_format == DGet(schema, "format", S(""))
    IN IF Truthy(param_format)
       THEN S(PyStr(param_type) \o " (" \o PyStr(param_format) \o ")")
       ELSE param_type

\* except Exception: example = None
OrNone(v) == IF v = Raise THEN None ELSE v

\* try: generate_from_schema(...) except Exception: None
TryGenerate(schema, name, rnd) == OrNone(GenerateFromSchema(schema, name, rnd))

\* `if not example: try: example = generate_from_schema(schema, name)`,
\* lines 220-225 and 291-296
ExampleOrGenerated(example, schema, name, rnd) ==
    IF ~Truthy(example) THEN TryGenerate(schema, name, rnd) ELSE example

\* the schema a parameter record is built from, lines 198-209
ParameterSchema(param) ==
    LET schema == DGet(param, "schema", D(<<>>))
        ref_path == DGet(schema, "$ref", None)
    IN IF ~IsDict(schema) THEN Raise
       ELSE IF ~DHas(schema, "$ref") THEN schema
       ELSE IF InRaises(S("_Nullable"), ref_path) THEN Raise
       ELSE IF In(S("_Nullable"), ref_path)
            THEN IF IsStr(ref_path) THEN NullableStub(ref_path) ELSE Raise
       ELSE FallbackSchema

\* example of lines 217-219: the parameter's own, else the schema's
AuthorExample(param, schema) ==
    IF ~Truthy(DGet(param, "example", None)) /\ DHas(schema, "example")
    THEN DGet(schema, "example", None)
    ELSE DGet(param, "example", None)

\* lines 211-235 of _extract_parameter_data, schema being that of 198-209
ParameterRecord(param, schema, rnd) ==
    IF schema = Raise THEN Raise
    ELSE D(<< <<"name", DGet(param, "name", S("unnamed"))>>,
              <<"type", TypeLabel(schema)>>,
              <<"required", DGet(param, "required", B(FALSE))>>,
              <<"description", DGet(param, "description", S(""))>>,
              <<"example", ExampleOrGenerated(AuthorExample(param, schema), schema,
                                              DGet(param, "name", None), rnd)>>,
              <<"enum", DGet(schema, "enum", L(<<>>))>>,
              <<"default", DGet(schema, "default", None)>> >>)

\* _extract_parameter_data(param)
ExtractParameterData(param, rnd) ==
    IF ~IsDict(param) THEN Raise
    ELSE ParameterRecord(param, ParameterSchema(param), rnd)

\* param.get('in', 'query'), line 186
ParamIn(param) == IF IsDict(param) THEN DGet(param, "in", S("query")) ELSE Raise

\* the list a parameter goes to, lines 189-194
Bucket(param_in) ==
    CASE param_in = S("path") -> "path_parameters"
      [] param_in = S("query") -> "query_parameters"
      [] param_in = S("header") -> "header_parameters"
      [] OTHER -> ""

\* one pass of the loop of _parse_parameters, lines 186-194
AppendParameter(endpoint, param_in, param_data) ==
    IF param_in = Raise \/ param_data = Raise THEN Raise
    ELSE IF Bucket(param_in) = "" THEN endpoint
    ELSE [endpoint EXCEPT ![Bucket(param_in)] =
                              L(Append(endpoint[Bucket(param_in)].xs, param_data))]

\* _parse_parameters(endpoint, parameters), from the i-th parameter on;
\* endpoint = Raise once a pass has raised
RECURSIVE ParseParameters(_, _, _, _)
ParseParameters(endpoint, parameters, i, rnd) ==
    IF endpoint = Raise THEN Raise
    ELSE IF i > Len(parameters) THEN endpoint
    ELSE ParseParameters(
             AppendParameter(endpoint, ParamIn(parameters[i]),
                             ExtractParameterData(parameters[i], rnd)),
             parameters, i + 1, rnd)

\* md(text, strip=['p']).strip(): markdownify drops the <p> tags it is told
\* to strip and escapes the markdown characters _ and * of the text
Markdownify(text) ==
    Strip(Replace(Replace(Replace(Replace(text, "<p>", ""), "</p>", ""),
                          "_", "\\_"), "*", "\\*"))

\* the schema a request-body property record is built from, lines 270-282
PropertySchema(doc, prop_schema) ==
    LET ref_path == DGet(prop_schema, "$ref", None)
    IN IF ~IsDict(prop_schema) THEN Raise
       ELSE IF ~DHas(prop_schema, "$ref") THEN prop_schema
       ELSE IF InRaises(S("_Nullable"), ref_path) THEN Raise
       ELSE IF In(S("_Nullable"), ref_path)
            THEN IF IsStr(ref_path) THEN NullableStub(ref_path) ELSE Raise
       ELSE DictOrRaise(ResolveRef(doc, ref_path, DefaultMaxDepth))

\* lines 284-305, prop_schema being that of 270-282
PropertyRecordFrom(prop_name, prop_schema, required_fields, rnd) ==
    IF prop_schema = Raise \/ InRaises(S(prop_name), required_fields) THEN Raise
    ELSE D(<< <<"name", S(prop_name)>>,
              <<"type", TypeLabel(prop_schema)>>,
              <<"required", B(In(S(prop_name), required_fields))>>,
              <<"description", DGet(prop_schema, "description", S(""))>>,
              <<"example", ExampleOrGenerated(DGet(prop_schema, "example", None),
                                              prop_schema, S(prop_name), rnd)>>,
              <<"enum", DGet(prop_schema, "enum", L(<<>>))>> >>)

\* one pass of the loop of lines 268-305: the record of one property
PropertyRecord(doc, prop_name, raw_schema, required_fields, rnd) ==
    PropertyRecordFrom(prop_name, PropertySchema(doc, raw_schema), required_fields, rnd)

\* list.append(item), unless building the item raised
AppendItem(acc, item) == IF item = Raise THEN Raise ELSE L(Append(acc.xs, item))

\* the list with more items behind it, unless building them raised
ExtendItems(acc, more) == IF more = Raise THEN Raise ELSE L(acc.xs \o more.xs)

\* for prop_name, prop_schema in properties.items(), lines 268-305;
\* acc = Raise once a pass has raised
RECURSIVE PropertyRecords(_, _, _, _, _, _)
PropertyRecords(doc, properties, required_fields, i, acc, rnd) ==
    IF acc = Raise THEN Raise
    ELSE IF i > Len(properties.kv) THEN acc
    ELSE PropertyRecords(doc, properties, required_fields, i + 1,
                         AppendItem(acc, PropertyRecord(doc, properties.kv[i][1],
                                                        properties.kv[i][2],
                                                        required_fields, rnd)),
                         rnd)

\* schema of lines 254-255: the media type's, resolved if it is a `$ref`
BodySchema(doc, raw_schema) ==
    IF ~IsDict(raw_schema) THEN Raise
    ELSE IF DHas(raw_schema, "$ref")
         THEN DictOrRaise(ResolveRef(doc, DGet(raw_schema, "$ref", None), DefaultMaxDepth))
         ELSE raw_schema

\* lines 258-261
WithDescription(endpoint, schema_description) ==
    IF ~Truthy(schema_description) THEN endpoint
    ELSE IF ~IsStr(schema_description) THEN Raise
    ELSE [endpoint EXCEPT !.request_body_description = S(Markdownify(schema_description.s))]

\* the records of lines 264-305
BodyRecordsOf(doc, schema, rnd) ==
    IF ~IsDict(DGet(schema, "properties", D(<<>>))) THEN Raise
    ELSE PropertyRecords(doc, DGet(schema, "properties", D(<<>>)),
                         DGet(schema, "required", L(<<>>)), 1, L(<<>>), rnd)

\* endpoint.request_body_parameters.append(...), for each record
WithBodyRecords(endpoint, records) ==
    IF endpoint = Raise \/ records = Raise THEN Raise
    ELSE [endpoint EXCEPT !.request_body_parameters =
                              L(endpoint.request_body_parameters.xs \o records.xs)]

\* lines 308-313
WithFullExample(endpoint, schema, rnd) ==
    IF endpoint = Raise THEN Raise
    ELSE IF ~Truthy(endpoint.request_body_example)
         THEN [endpoint EXCEPT !.request_body_example = TryGenerate(schema, None, rnd)]
         ELSE endpoint

\* lines 258-313, schema being that of lines 254-255
ParseResolvedBody(doc, endpoint, schema, rnd) ==
    IF schema = Raise THEN Raise
    ELSE WithFullExample(
             WithBodyRecords(WithDescription(endpoint, DGet(schema, "description", S(""))),
                             BodyRecordsOf(doc, schema, rnd)),
             schema, rnd)

\* the body of the loop of lines 246-315 for a media object whose schema is
\* truthy: the endpoint after it, or Raise
ParseBodySchema(doc, endpoint, raw_schema, rnd) ==
    ParseResolvedBody(doc, [endpoint EXCEPT !.request_body_schema = raw_schema],
                      BodySchema(doc, raw_schema), rnd)

\* as BodyContentLoop, were the loop to go on after a media type was
\* processed (no break at line 315)
RECURSIVE BodyContentLoopAll(_, _, _, _, _)
BodyContentLoopAll(doc, endpoint, content, i, rnd) ==
    IF i > Len(content.kv) \/ endpoint = Raise THEN endpoint
    ELSE IF ~IsDict(content.kv[i][2]) THEN Raise
    ELSE IF ~Truthy(DGet(content.kv[i][2], "schema", D(<<>>)))
         THEN BodyContentLoopAll(doc, endpoint, content, i + 1, rnd)
    ELSE BodyContentLoopAll(doc,
                            ParseBodySchema(doc, endpoint,
                                            DGet(content.kv[i][2], "schema", D(<<>>)), rnd),
                            content, i + 1, rnd)

\* for media_type, media_obj in content.items(), lines 246-315
RECURSIVE BodyContentLoop(_, _, _, _, _)
BodyContentLoop(doc, endpoint, content, i, rnd) ==
    IF i > Len(content.kv) THEN endpoint
    ELSE LET media_obj == content.kv[i][2]
             schema == IF IsDict(media_obj) THEN DGet(media_obj, "schema", D(<<>>)) ELSE Raise
         IN IF schema = Raise THEN Raise
            ELSE IF ~Truthy(schema) THEN BodyContentLoop(doc, endpoint, content, i + 1, rnd)
            ELSE ParseBodySchema(doc, endpoint, schema, rnd)

\* lines 240-242
WithExistingBodyExample(endpoint, existing_example) ==
    IF existing_example = Raise THEN Raise
    ELSE IF Truthy(existing_example)
         THEN [endpoint EXCEPT !.request_body_example = existing_example]
         ELSE endpoint

\* lines 245-315
ParseBodyContent(doc, endpoint, request_body, rnd) ==
    IF endpoint = Raise \/ ~IsDict(request_body) THEN Raise
    ELSE IF ~IsDict(DGet(request_body, "content", D(<<>>))) THEN Raise
    ELSE BodyContentLoop(doc, endpoint, DGet(request_body, "content", D(<<>>)), 1, rnd)

\* _parse_request_body(endpoint, request_body, operation)
ParseRequestBody(doc, endpoint, request_body, operation, rnd) ==
    ParseBodyContent(doc,
                     WithExistingBodyExample(endpoint,
                                             ExtractExistingExample(operation, "requestBody")),
                     request_body, rnd)

\* [example_obj.get('value') for example_obj in examples.values()]
RECURSIVE ExampleValues(_, _, _)
ExampleValues(examples, i, acc) ==
    IF i > Len(examples.kv) THEN L(acc)
    ELSE IF ~IsDict(examples.kv[i][2]) THEN Raise
    ELSE ExampleValues(examples, i + 1,
                       Append(acc, DGet(examples.kv[i][2], "value", None)))

\* lines 348-353: the generated example, or {} if generating it raised
GeneratedOrEmpty(generated) ==
    IF generated = Raise THEN L(<<D(<<>>)>>) ELSE L(<<generated>>)

\* the examples one media object adds to response_data['examples'],
\* lines 337-353: the list of them, or Raise
MediaResponseExamples(media_obj, rnd) ==
    IF ~IsDict(media_obj) THEN Raise
    ELSE
    LET schema == DGet(media_obj, "schema", D(<<>>))
        examples == DGet(media_obj, "examples", D(<<>>))
    IN IF ~Truthy(schema) THEN L(<<>>)
       ELSE IF Truthy(examples)
            THEN IF IsDict(examples) THEN ExampleValues(examples, 1, <<>>) ELSE Raise
       ELSE IF DHas(media_obj, "example") THEN L(<<DGet(media_obj, "example", None)>>)
       ELSE GeneratedOrEmpty(GenerateFromSchema(schema, None, rnd))

\* for media_type, media_obj in content.items(), lines 336-353;
\* acc = Raise once a pass has raised
RECURSIVE ResponseContentLoop(_, _, _, _)
ResponseContentLoop(content, i, acc, rnd) ==
    IF acc = Raise THEN Raise
    ELSE IF i > Len(content.kv) THEN acc
    ELSE ResponseContentLoop(content, i + 1,
                             ExtendItems(acc, MediaResponseExamples(content.kv[i][2], rnd)),
                             rnd)

\* response_data['examples'] of one response, lines 327-353
ResponseExamples(response, rnd) ==
    IF ~IsDict(response) THEN Raise
    ELSE IF ~IsDict(DGet(response, "content", D(<<>>))) THEN Raise
    ELSE ResponseContentLoop(DGet(response, "content", D(<<>>)), 1, L(<<>>), rnd)

\* as SuccessExample, were the list of examples stored whole
SuccessExampleWholeList(examples) == examples

\* response_data['examples'][0], line 360
SuccessExample(examples) == examples.xs[1]

\* lines 358-361
WithSuccess(endpoint, status_code, examples) ==
    IF /\ StartsWith(status_code, "2")
       /\ ~Truthy(endpoint.success_response_example)
       /\ Truthy(examples)
    THEN [endpoint EXCEPT !.success_response_example = SuccessExample(examples),
                          !.success_status_code = S(status_code)]
    ELSE endpoint

\* lines 330-361, examples being those of lines 336-353
WithResponse(endpoint, status_code, response, examples) ==
    IF examples = Raise THEN Raise
    ELSE WithSuccess(
             [endpoint EXCEPT !.responses =
                 DSet(endpoint.responses, status_code,
                      D(<< <<"status_code", S(status_code)>>,
                           <<"description", DGet(response, "description", S(""))>>,
                           <<"examples", examples>> >>))],
             status_code, examples)

\* for status_code, response in responses.items(), lines 326-361;
\* endpoint = Raise once a pass has raised
RECURSIVE ResponsesLoop(_, _, _, _)
ResponsesLoop(endpoint, responses, i, rnd) ==
    IF endpoint = Raise THEN Raise
    ELSE IF i > Len(responses.kv) THEN endpoint
    ELSE ResponsesLoop(
             WithResponse(endpoint, responses.kv[i][1], responses.kv[i][2],
                          ResponseExamples(responses.kv[i][2], rnd)),
             responses, i + 1, rnd)

FallbackCodes == <<"200", "201", "202", "204">>

\* for code in ['200', '201', '202', '204'], lines 364-368
RECURSIVE FallbackStatus(_, _)
FallbackStatus(endpoint, i) ==
    IF i > Len(FallbackCodes) THEN endpoint
    ELSE IF DHas(endpoint.responses, FallbackCodes[i])
         THEN [endpoint EXCEPT !.success_status_code = S(FallbackCodes[i])]
         ELSE FallbackStatus(endpoint, i + 1)

\* lines 322-324
WithExistingSuccessExample(endpoint, existing_example) ==
    IF existing_example = Raise THEN Raise
    ELSE IF Truthy(existing_example)
         THEN [endpoint EXCEPT !.success_response_example = existing_example]
         ELSE endpoint

\* lines 326-361
ParseResponsesLoop(endpoint, responses, rnd) ==
    IF endpoint = Raise \/ ~IsDict(responses) THEN Raise
    ELSE ResponsesLoop(endpoint, responses, 1, rnd)

\* lines 364-368
WithFallbackStatus(endpoint) ==
    IF endpoint = Raise THEN Raise
    ELSE IF ~Truthy(endpoint.success_status_code) THEN FallbackStatus(endpoint, 1)
    ELSE endpoint

\* _parse_responses(endpoint, operation)
ParseResponses(endpoint, operation, rnd) ==
    WithFallbackStatus(
        ParseResponsesLoop(
            WithExistingSuccessExample(endpoint,
                                       ExtractExistingExample(operation, "responses")),
            DGet(operation, "responses", D(<<>>)), rnd))

\* lines 161-168
NewEndpoint(path, method, operation) ==
    [EndpointData EXCEPT
        !.path = S(path), !.method = S(method),
        !.operation_id = DGet(operation, "operationId", S("")),
        !.summary = DGet(operation, "summary", S("")),
        !.description = DGet(operation, "description", S("")),
        !.tags = DGet(operation, "tags", L(<<>>))]

\* as AllParams, were the operation's own parameters put first
AllParamsOperationFirst(common_params, op_params) ==
    IF IsList(common_params) /\ IsList(op_params)
    THEN L(op_params.xs \o common_params.xs)
    ELSE Raise

\* common_params + operation.get('parameters', []), line 171
AllParams(common_params, op_params) ==
    IF IsList(common_params) /\ IsList(op_params)
    THEN L(common_params.xs \o op_params.xs)
    ELSE Raise

\* line 172
ParseEndpointParameters(endpoint, all_params, rnd) ==
    IF all_params = Raise THEN Raise
    ELSE ParseParameters(endpoint, all_params.xs, 1, rnd)

\* lines 175-176
ParseEndpointBody(doc, endpoint, operation, rnd) ==
    IF endpoint = Raise THEN Raise
    ELSE IF DHas(operation, "requestBody")
         THEN ParseRequestBody(doc, endpoint, DGet(operation, "requestBody", None),
                               operation, rnd)
         ELSE endpoint

\* line 179
ParseEndpointResponses(endpoint, operation, rnd) ==
    IF endpoint = Raise THEN Raise ELSE ParseResponses(endpoint, operation, rnd)

\* _parse_endpoint(path, method, operation, common_params)
ParseEndpoint(doc, path, method, operation, common_params, rnd) ==
    IF ~IsDict(operation) THEN Raise
    ELSE ParseEndpointResponses(
             ParseEndpointBody(doc,
                 ParseEndpointParameters(
                     NewEndpoint(path, method, operation),
                     AllParams(common_params, DGet(operation, "parameters", L(<<>>))),
                     rnd),
                 operation, rnd),
             operation, rnd)

\* as Methods, were the method list kept sorted by name
MethodsSorted == <<"delete", "get", "head", "options", "patch", "post", "put">>

Methods == <<"get", "post", "put", "delete", "patch", "options", "head">>

\* the inner loop of parse_all_endpoints, lines 144-148;
\* acc = Raise once _parse_endpoint has raised
RECURSIVE MethodLoop(_, _, _, _, _, _)
MethodLoop(doc, path, path_item, m, acc, rnd) ==
    IF acc = Raise THEN Raise
    ELSE IF m > Len(Methods) THEN acc
    ELSE IF ~DHas(path_item, Methods[m]) THEN MethodLoop(doc, path, path_item, m + 1, acc, rnd)
    ELSE MethodLoop(doc, path, path_item, m + 1,
                    AppendItem(acc, ParseEndpoint(doc, path, Methods[m],
                                                  DGet(path_item, Methods[m], None),
                                                  DGet(path_item, "parameters", L(<<>>)),
                                                  rnd)),
                    rnd)

\* the outer loop of parse_all_endpoints, lines 140-148
RECURSIVE PathLoop(_, _, _, _, _)
PathLoop(doc, paths, p, acc, rnd) ==
    IF acc = Raise THEN Raise
    ELSE IF p > Len(paths.kv) THEN acc
    ELSE IF ~IsDict(paths.kv[p][2]) THEN Raise
    ELSE PathLoop(doc, paths, p + 1,
                  ExtendItems(acc, MethodLoop(doc, paths.kv[p][1], paths.kv[p][2], 1,
                                              L(<<>>), rnd)),
                  rnd)

\* parse_all_endpoints(): the list returned, or Raise
ParseAllEndpoints(doc, rnd) ==
    LET paths == DGet(doc, "paths", D(<<>>))
    IN IF IsDict(paths) THEN PathLoop(doc, paths, 1, L(<<>>), rnd) ELSE Raise

\* The writes of a parse.  _parse_endpoint and the methods it calls write
\* into the EndpointData made at line 161, into its lists and into the
\* response_data made at line 330; parse_all_endpoints into the list made at
\* line 136.  What they hold of the document (the operation, its schemas,
\* the component schemas) they read, or hand to the generator.

\* as CommonParamsAfter, were the path item's list extended in place
\* (`common_params += operation.get('parameters', [])`)
CommonParamsExtended(common_params, op_params) ==
    IF IsList(common_params) /\ IsList(op_params)
    THEN L(common_params.xs \o op_params.xs)
    ELSE common_params

\* the list common_params after line 171: `+` makes a new list
CommonParamsAfter(common_params, op_params) == common_params

\* a list or a mapping with After applied to each of its values
EachAfter(v, After(_)) ==
    CASE v.t = "list" -> L([i \in 1..Len(v.xs) |-> After(v.xs[i])])
      [] v.t = "dict" -> D([i \in 1..Len(v.kv) |-> <<v.kv[i][1], After(v.kv[i][2])>>])
      [] OTHER -> v

\* a mapping with After applied to its value under key, if it has one
UpdatedAt(holder, key, After(_)) ==
    IF IsDict(holder) /\ DHas(holder, key)
    THEN DSet(holder, key, After(DGet(holder, key, None)))
    ELSE holder

\* a parameter or a media object after its schema was handed to the
\* generator, lines 222, 298 and 349
SchemaHolderAfter(holder) == UpdatedAt(holder, "schema", SchemaAfterGenerate)

ContentAfter(content) == EachAfter(content, SchemaHolderAfter)

\* a requestBody or response object after its media schemas were handed to
\* the generator, lines 298 and 349
ContentHolderAfter(holder) == UpdatedAt(holder, "content", ContentAfter)

ParametersAfter(parameters) == EachAfter(parameters, SchemaHolderAfter)

ResponsesAfter(responses) == EachAfter(responses, ContentHolderAfter)

\* an operation after _parse_endpoint: its parameter schemas (line 222),
\* its request body and its responses.  A schema is taken as handed to the
\* generator wherever the parser can hand it: the tests of lines 220, 246,
\* 296 and 340-345 can only leave the call out.
OperationAfter(operation) ==
    UpdatedAt(UpdatedAt(UpdatedAt(operation, "parameters", ParametersAfter),
                        "requestBody", ContentHolderAfter),
              "responses", ResponsesAfter)

\* operation.get('parameters', []), line 171
OperationParameters(operation) ==
    IF IsDict(operation) THEN DGet(operation, "parameters", L(<<>>)) ELSE None

\* the path item after line 171 ran with the operation's parameters
WithCommonParams(item, op_params) ==
    IF DHas(item, "parameters")
    THEN DSet(item, "parameters",
              ParametersAfter(CommonParamsAfter(DGet(item, "parameters", None), op_params)))
    ELSE item

\* a path item after the inner loop of parse_all_endpoints from the m-th
\* method on: line 171 runs once for each operation of the path item
RECURSIVE PathItemAfter(_, _)
PathItemAfter(path_item, m) ==
    IF ~IsDict(path_item) \/ m > Len(Methods) THEN path_item
    ELSE IF ~DHas(path_item, Methods[m]) THEN PathItemAfter(path_item, m + 1)
    ELSE PathItemAfter(WithCommonParams(UpdatedAt(path_item, Methods[m], OperationAfter),
                                        OperationParameters(DGet(path_item, Methods[m],
                                                                 None))),
                       m + 1)

PathItemParsed(path_item) == PathItemAfter(path_item, 1)

PathsAfter(paths) == IF IsDict(paths) THEN EachAfter(paths, PathItemParsed) ELSE paths

\* the component schemas _resolve_ref hands out (lines 255, 277)
SchemasAfter(schemas) == EachAfter(schemas, SchemaAfterGenerate)

ComponentsAfter(components) == UpdatedAt(components, "schemas", SchemasAfter)

\* the document after parse_all_endpoints(): its path items and its
\* component schemas
SpecAfterParse(doc) ==
    UpdatedAt(UpdatedAt(doc, "paths", PathsAfter), "components", ComponentsAfter)

-----------------------------------------------------------------------------
(* The documents the parser is run on.  A document is built as YAML would  *)
(* load it: a mapping with info, paths and components.schemas.             *)

Ref(name) == D(<< <<"$ref", S(SchemaPrefix \o name)>> >>)
Typed(type) == D(<< <<"type", S(type)>> >>)
Formatted(type, format) == D(<< <<"type", S(type)>>, <<"format", S(format)>> >>)
Object(properties) == D(<< <<"type", S("object")>>, <<"properties", D(properties)>> >>)

PartSchema == Object(<< <<"size", Typed("integer")>> >>)

WidgetSchema ==
    D(<< <<"type", S("object")>>,
         <<"description", S("<p>A widget_v1 </p>")>>,
         <<"required", L(<<S("id")>>)>>,
         <<"properties", D(<< <<"id", Formatted("string", "uuid")>>,
                              <<"label", Typed("string")>>,
                              <<"part", Ref("Part")>> >>)>> >>)

ComponentsSchemas0 ==
    D(<< <<"Widget", WidgetSchema>>,
         <<"Part", PartSchema>>,
         <<"Color", D(<< <<"type", S("string")>>, <<"format", S("css")>>,
                         <<"enum", L(<<S("red"), S("green")>>)>>,
                         <<"default", S("green")>> >>)>>,
         <<"Widget_Nullable", D(<< <<"type", S("object")>>, <<"nullable", B(TRUE)>>,
                                     <<"properties", DGet(WidgetSchema, "properties", None)>> >>)>>,
         <<"Part_Nullable", D(<< <<"nullable", B(TRUE)>>,
                                   <<"allOf", L(<<Ref("Part")>>)>> >>)>>,
         <<"SelfRef", Ref("SelfRef")>>,
         <<"Ping", Ref("Pong")>>,
         <<"Pong", Ref("Ping")>>,
         <<"Alias", Ref("Widget")>>,
         <<"Alias2", Ref("Alias")>>,
         <<"Alias3", Ref("Alias2")>>,
         <<"Foreign", D(<< <<"$ref", S("#/definitions/Old")>> >>)>>,
         <<"Dangling", Ref("Missing")>> >>)

Media(schema) == D(<< <<"application/json", D(<< <<"schema", schema>> >>)>> >>)
JsonBody(schema) == D(<< <<"content", Media(schema)>> >>)
Response(description, schema) ==
    D(<< <<"description", S(description)>>, <<"content", Media(schema)>> >>)
Only200(schema) == D(<< <<"200", Response("OK", schema)>> >>)
Param(name, in, schema) ==
    D(<< <<"name", S(name)>>, <<"in", S(in)>>, <<"schema", schema>> >>)

\* an operation object; body = NotRun stands for "no requestBody key"
Operation(id, parameters, body, responses) ==
    D(<< <<"operationId", S(id)>>, <<"tags", L(<<S("Widgets")>>)>>,
         <<"parameters", L(parameters)>> >>
      \o (IF body = NotRun THEN <<>> ELSE << <<"requestBody", body>> >>)
      \o << <<"responses", responses>> >>)

StatusSchema ==
    Object(<< <<"status", D(<< <<"type", S("string")>>, <<"enum", L(<<S("ok")>>)>> >>)>> >>)

NewWidgetSchema ==
    D(<< <<"type", S("object")>>,
         <<"description", S("<p>New widget</p>")>>,
         <<"required", L(<<S("label")>>)>>,
         <<"properties", D(<< <<"label", Typed("string")>>,
                              <<"count", Typed("integer")>>,
                              <<"createdAt", Formatted("string", "date-time")>> >>)>> >>)

BaselineParams ==
    << D(<< <<"name", S("widgetId")>>, <<"in", S("path")>>, <<"required", B(TRUE)>>,
            <<"schema", Typed("string")>> >>),
       Param("limit", "query", Typed("integer")),
       Param("X-Trace", "header", Typed("string")),
       Param("session", "cookie", Typed("string")) >>

BaselineResponses ==
    D(<< <<"200", Response("OK", StatusSchema)>>,
         <<"404", D(<< <<"description", S("Not found")>> >>)>> >>)

\* The operations: well-formed ones, ones that refer to component schemas
\* (directly, through aliases, through cycles, by the nullable convention),
\* and ones with a schema of an unexpected shape in one place.
Operations ==
    { Operation("ping", <<>>, NotRun, Only200(StatusSchema)),
      Operation("baseline", BaselineParams, JsonBody(NewWidgetSchema), BaselineResponses),
      Operation("objectResponse", <<>>, NotRun,
                Only200(Object(<< <<"id", Typed("string")>>,
                                  <<"updated", Formatted("integer", "int64")>> >>))),
      Operation("emptyObjectResponse", <<>>, NotRun, Only200(Typed("object"))),
      Operation("bodyRef", <<>>, JsonBody(Ref("Widget")), Only200(Ref("Widget"))),
      Operation("bodyAlias", <<>>, JsonBody(Ref("Alias")), BaselineResponses),
      Operation("bodyDeepAlias", <<>>, JsonBody(Ref("Alias3")), BaselineResponses),
      Operation("bodySelfRef", <<>>, JsonBody(Ref("SelfRef")), BaselineResponses),
      Operation("bodyForeign", <<>>, JsonBody(D(<< <<"$ref", S("other.yaml#/Widget")>> >>)),
                BaselineResponses),
      Operation("nullableRefs",
                << Param("widget", "query", Ref("Widget_Nullable")),
                   Param("part", "header", Ref("Part_Nullable")) >>,
                JsonBody(Object(<< <<"owner", Ref("Widget_Nullable")>>,
                                   <<"spare", Ref("Part_Nullable")>>,
                                   <<"label", Typed("string")>> >>)),
                BaselineResponses),
      Operation("plainRefs",
                << Param("widget", "query", Ref("Widget")) >>,
                JsonBody(Object(<< <<"part", Ref("Part")>>,
                                   <<"loop", Ref("Ping")>>,
                                   <<"gone", Ref("Dangling")>> >>)),
                BaselineResponses),
      Operation("paramBuckets",
                << Param("tenant", "header", Typed("integer")),
                   Param("color", "query", Ref("Color")),
                   Param("session", "cookie", Typed("string")),
                   D(<< <<"name", S("page")>>, <<"schema", Typed("integer")>> >>),
                   Param("widgetId", "path", Formatted("string", "uuid")),
                   Param("tenant", "query", Typed("string")) >>,
                NotRun, BaselineResponses),
      \* a request body composed of two object schemas
      Operation("composedBody", << Param("limit", "query", Typed("integer")) >>,
                JsonBody(D(<< <<"allOf",
                              L(<< Object(<< <<"id", Formatted("string", "uuid")>> >>),
                                   D(<< <<"required", L(<<S("size")>>)>>,
                                        <<"properties",
                                          D(<< <<"size", Typed("integer")>> >>)>> >>) >>)>> >>)),
                BaselineResponses),
      \* responses whose codes are not in the order of the fallback list,
      \* without content, or with an empty example
      Operation("createdFirst", <<>>, NotRun,
                D(<< <<"404", D(<< <<"description", S("Not found")>> >>)>>,
                     <<"201", Response("Created", StatusSchema)>>,
                     <<"200", Response("OK", PartSchema)>> >>)),
      Operation("noContent", <<>>, NotRun,
                D(<< <<"203", D(<< <<"description", S("Cached")>> >>)>>,
                     <<"500", Response("Error", StatusSchema)>> >>)),
      Operation("emptyThenFull", <<>>, NotRun,
                D(<< <<"204", D(<< <<"description", S("No content")>> >>)>>,
                     <<"200", Response("OK", Typed("object"))>>,
                     <<"206", Response("Partial", StatusSchema)>> >>)),
      \* a schema of an unexpected shape, in one place
      Operation("paramItemsNotSchema",
                << Param("tags", "query",
                         D(<< <<"type", S("array")>>, <<"items", S("string")>> >>)) >>,
                NotRun, BaselineResponses),
      Operation("paramSchemaNotMapping", << Param("tags", "query", S("string")) >>,
                NotRun, BaselineResponses),
      Operation("propertyItemsNotSchema", <<>>,
                JsonBody(Object(<< <<"label", Typed("string")>>,
                                   <<"sizes", D(<< <<"type", S("array")>>,
                                                   <<"items", L(<<>>)>> >>)>> >>)),
                BaselineResponses),
      Operation("propertyNotMapping", <<>>,
                JsonBody(Object(<< <<"label", Typed("string")>>, <<"sizes", None>> >>)),
                BaselineResponses),
      Operation("bodyPropertiesNotMapping", <<>>,
                JsonBody(D(<< <<"type", S("object")>>,
                              <<"properties", L(<<S("label")>>)>> >>)),
                BaselineResponses),
      Operation("bodyRequiredNotList", <<>>,
                JsonBody(D(<< <<"type", S("array")>>, <<"minItems", S("2")>>,
                              <<"items", Typed("string")>> >>)),
                BaselineResponses),
      Operation("responsePropertiesNotMapping", <<>>, NotRun,
                Only200(D(<< <<"type", S("object")>>, <<"properties", S("oops")>> >>))),
      Operation("responseSchemaNotMapping", <<>>, NotRun, Only200(N(5))) }

PathNames == {"/ping", "/b", "/a", "/c"}

\* what each path defines: /ping only get; /b and /a get and post (/a lists
\* post first); /c every method, not in the order of the method list, and
\* the other keys of a path item
PathItem(path, operation) ==
    CASE path = "/ping" -> D(<< <<"get", operation>> >>)
      [] path = "/b" -> D(<< <<"get", operation>>, <<"post", operation>> >>)
      [] path = "/a" -> D(<< <<"post", operation>>, <<"get", operation>> >>)
      [] OTHER -> D(<< <<"summary", S("The a things")>>,
                       <<"patch", operation>>, <<"post", operation>>,
                       <<"get", operation>>, <<"delete", operation>>,
                       <<"parameters", L(<<Param("tenant", "header", Typed("string"))>>)>>,
                       <<"put", operation>>, <<"options", operation>>,
                       <<"head", operation>> >>)

\* the orders in which a document can list up to MaxPaths distinct paths
PathOrders ==
    { order \in UNION { [1..n -> PathNames] : n \in 0..MaxPaths } :
        \A i, j \in DOMAIN order : i # j => order[i] # order[j] }

\* the document yaml.safe_load yields
Document(order, operation) ==
    D(<< <<"openapi", S("3.0.0")>>,
         <<"info", D(<< <<"title", S("Widgets")>>, <<"version", S("1.0.0")>> >>)>>,
         <<"paths", D([i \in DOMAIN order |-> <<order[i], PathItem(order[i], operation)>>])>>,
         <<"components", D(<< <<"schemas", ComponentsSchemas0>> >>)>> >>)

Documents == { Document(order, operation) : order \in PathOrders, operation \in Operations }

\* _fix_spec_issues(spec): the document after the pass over spec['servers']
FixSpecIssues(doc) ==
    LET servers == DGet(doc, "servers", None)
        Fixed(server) ==
            IF IsDict(server) /\ ~Truthy(DGet(server, "url", None))
            THEN D(<< <<"url", S("https://api.example.com")>> >>)
            ELSE server
    IN IF DHas(doc, "servers") /\ IsList(servers)
       THEN DSet(doc, "servers", L([i \in 1..Len(servers.xs) |-> Fixed(servers.xs[i])]))
       ELSE doc

-----------------------------------------------------------------------------
(* The parser: OpenAPIParser(yaml_path), then parse_all_endpoints() calls  *)

IdleResolve == [pc |-> "idle", ref0 |-> None, budget |-> 0, ref |-> None, depth |-> 0,
                hops |-> 0, result |-> NotRun]
IdleGenerate == [schema |-> None, name |-> None, result |-> NotRun]
IdleToc == [base |-> "", filename |-> "", result |-> NotRun]
IdleDocs == [_data |-> None, entry |-> NotRun, returned |-> NotRun, calls |-> 0]
IdleExtract == [operation |-> None, location |-> "", result |-> NotRun]
IdleDocGen == [current_iteration |-> 0, workers |-> <<>>]

\* OpenAPIParser.__init__
Init ==
    /\ spec \in { FixSpecIssues(doc) : doc \in Documents }
    /\ endpoints = NotRun
    /\ prev_endpoints = NotRun
    /\ parses = 0
    /\ rr = IdleResolve
    /\ gen = IdleGenerate
    /\ toc = IdleToc
    /\ docs = IdleDocs
    /\ ex = IdleExtract
    /\ dg = IdleDocGen

\* a call of parse_all_endpoints()
ParseAll(rnd) ==
    /\ parses < MaxParses
    /\ endpoints' = ParseAllEndpoints(spec, rnd)
    /\ spec' = SpecAfterParse(spec)
    /\ prev_endpoints' = endpoints
    /\ parses' = parses + 1
    /\ UNCHANGED <<rr, gen, toc, docs, ex, dg>>

Next == \E rnd \in Oracles : ParseAll(rnd)

Spec == Init /\ [][Next]_vars

-----------------------------------------------------------------------------
(* _resolve_ref, one invocation at a time.  rr is the frame of the         *)
(* invocation in progress: ref0 and budget are the arguments of the        *)
(* outermost call, ref and depth those of the current invocation, hops the *)
(* number of recursive calls made so far.                                  *)

RefPaths ==
    { S(SchemaPrefix \o name) :
        name \in {"Widget", "Widget_Nullable", "SelfRef", "Ping", "Alias", "Alias3",
                  "Foreign", "Dangling", "Missing", "Widget/properties/id"} }
    \cup { S("#/definitions/Widget"), S("other.yaml#/components/schemas/Widget"),
           S("#/components/schema/Widget"), S("") }

ResolveDocument == FixSpecIssues(Document(<<>>, Operation("none", <<>>, NotRun, D(<<>>))))

ResolveInit ==
    /\ spec = ResolveDocument
    /\ endpoints = NotRun
    /\ prev_endpoints = NotRun
    /\ parses = 0
    /\ rr = IdleResolve
    /\ gen = IdleGenerate
    /\ toc = IdleToc
    /\ docs = IdleDocs
    /\ ex = IdleExtract
    /\ dg = IdleDocGen

\* a caller invokes _resolve_ref(ref_path, max_depth)
ResolveCall(ref_path, max_depth) ==
    /\ rr.pc \in {"idle", "done"}
    /\ rr' = [pc |-> "running", ref0 |-> ref_path, budget |-> max_depth,
              ref |-> ref_path, depth |-> max_depth, hops |-> 0, result |-> NotRun]
    /\ UNCHANGED <<spec, endpoints, prev_endpoints, parses, gen, toc, docs, ex, dg>>

\* the current invocation runs: it returns, or calls itself (line 398)
ResolveRun ==
    /\ rr.pc = "running"
    /\ LET r == ResolveStep(spec, rr.ref, rr.depth)
       IN rr' = IF r.done
                THEN [rr EXCEPT !.pc = "done", !.result = r.value]
                ELSE [rr EXCEPT !.ref = r.ref, !.depth = r.depth, !.hops = rr.hops + 1]
    /\ UNCHANGED <<spec, endpoints, prev_endpoints, parses, gen, toc, docs, ex, dg>>

ResolveNext ==
    \/ \E ref_path \in RefPaths : \E max_depth \in 0..MaxDepth :
           ResolveCall(ref_path, max_depth)
    \/ ResolveRun

ResolveSpec == ResolveInit /\ [][ResolveNext]_vars

-----------------------------------------------------------------------------
(* ExampleGenerator.generate_from_schema as a function of its arguments    *)

ExtraName(i) == "extra" \o IntToStr(i)

\* properties id, name, extra1 .. extra<n>, in this order
WideProperties(n) ==
    D(<< <<"id", Typed("string")>>, <<"name", Typed("string")>> >>
      \o [i \in 1..n |-> <<ExtraName(i), Typed("integer")>>])

RequiredLists ==
    { <<>>, <<S("id")>>, <<S("name"), S("id")>>, <<S("extra2"), S("id")>>,
      <<S("id"), S("missing")>>, <<S("id"), S("id")>> }

WideObjects ==
    { D(<< <<"type", S("object")>>, <<"required", L(required)>>,
           <<"properties", WideProperties(n)>> >>) :
        required \in RequiredLists, n \in 0..MaxExtra }

WithExample(schema, example) == DSet(schema, "example", example)

\* nodes on which more than one step of generate_from_schema could act
StepSchemas ==
    { D(<< <<"type", S("integer")>>, <<"oneOf", L(<<>>)>> >>),
      D(<< <<"type", S("integer")>>, <<"enum", L(<<>>)>> >>),
      D(<< <<"enum", L(<<S("ok")>>)>>, <<"oneOf", L(<<Typed("integer")>>)>> >>),
      D(<< <<"enum", L(<<N(3)>>)>>, <<"allOf", L(<<Typed("boolean")>>)>> >>),
      D(<< <<"allOf", L(<<Typed("boolean")>>)>>, <<"oneOf", L(<<Typed("integer")>>)>> >>),
      D(<< <<"allOf", L(<<Typed("boolean")>>)>>, <<"anyOf", L(<<Typed("number")>>)>> >>),
      D(<< <<"anyOf", L(<<Typed("integer"), Typed("boolean")>>)>>, <<"type", S("object")>> >>),
      D(<< <<"type", S("string")>>, <<"allOf", L(<<Typed("integer")>>)>> >>),
      D(<< <<"oneOf", L(<<>>)>>, <<"allOf", L(<<Typed("integer")>>)>> >>),
      Typed("file"), D(<< <<"format", S("date")>> >>),
      D(<< <<"type", L(<<S("string"), S("null")>>)>> >>),
      D(<< <<"type", S("String")>>, <<"format", S("uuid")>> >>),
      D(<< <<"type", S("string")>>, <<"enum", L(<<S("a")>>)>>,
           <<"oneOf", L(<<Typed("integer")>>)>>, <<"allOf", L(<<Typed("boolean")>>)>>,
           <<"example", S("first")>> >>) }

\* the members of the allOf nodes
MemberOne ==
    D(<< <<"type", S("object")>>, <<"description", S("one")>>,
         <<"required", L(<<S("a")>>)>>,
         <<"properties", D(<< <<"a", Typed("integer")>>, <<"c", Typed("number")>> >>)>> >>)

MemberTwo ==
    D(<< <<"description", S("two")>>, <<"required", L(<<S("b"), S("a")>>)>>,
         <<"properties", D(<< <<"b", Typed("boolean")>>, <<"a", Typed("string")>> >>)>>,
         <<"title", S("Two")>> >>)

MemberThree == D(<< <<"description", S("three")>>, <<"type", S("object")>> >>)

\* nodes whose allOf has members that share property names, required names
\* and other fields
MergeSchemas ==
    { D(<< <<"allOf", L(members)>> >>) :
        members \in { <<>>, <<MemberOne>>, <<MemberOne, MemberTwo>>, <<MemberTwo, MemberOne>>,
                      <<MemberOne, MemberTwo, MemberThree>>, <<MemberThree, MemberTwo>>,
                      <<MemberTwo, MemberTwo>>, <<Typed("integer"), Formatted("string", "uuid")>> } }

GenSchemas ==
    WideObjects
    \cup { Typed("string"), Typed("integer"), Typed("number"), Typed("boolean"),
           Typed("object"), Typed("array"), Typed("null"), D(<<>>),
           Formatted("string", "uuid"), Formatted("string", "date-time"),
           Formatted("string", "date"), Formatted("string", "email"),
           Formatted("string", "int64"), Formatted("integer", "int64"),
           Formatted("number", "double"),
           D(<< <<"type", S("string")>>, <<"enum", L(<<S("ok"), S("failed")>>)>> >>),
           D(<< <<"type", S("boolean")>>, <<"enum", L(<<B(TRUE), B(FALSE)>>)>> >>),
           D(<< <<"type", S("boolean")>>, <<"default", B(TRUE)>> >>),
           D(<< <<"type", S("array")>>, <<"items", Formatted("string", "uuid")>>,
                <<"minItems", N(2)>> >>),
           D(<< <<"type", S("array")>>, <<"items", Typed("integer")>>, <<"minItems", N(10)>> >>),
           D(<< <<"type", S("array")>>, <<"items", Typed("boolean")>>, <<"minItems", N(0)>> >>),
           D(<< <<"oneOf", L(<<Typed("integer"), Typed("string")>>)>> >>),
           D(<< <<"anyOf", L(<<StatusSchema, Typed("string")>>)>> >>),
           D(<< <<"type", S("object")>>,
                <<"allOf", L(<<NewWidgetSchema, Object(<< <<"size", Typed("integer")>> >>)>>)>> >>),
           D(<< <<"type", S("object")>>, <<"properties", L(<<S("id")>>)>> >>),
           D(<< <<"type", S("array")>>, <<"items", S("string")>> >>),
           D(<< <<"type", S("object")>>, <<"required", None>>,
                <<"properties", WideProperties(1)>> >>),
           \* a node with an author-supplied example beside other keywords
           WithExample(Object(<< <<"foo", Typed("integer")>> >>), D(<< <<"foo", N(1)>> >>)),
           WithExample(Typed("integer"), N(0)),
           WithExample(Typed("boolean"), B(TRUE)),
           WithExample(Typed("string"), S("")),
           WithExample(Formatted("string", "uuid"), None),
           WithExample(D(<< <<"type", S("string")>>, <<"enum", L(<<S("ok")>>)>> >>), S("failed")),
           WithExample(D(<< <<"oneOf", L(<<Typed("integer")>>)>> >>), L(<<>>)),
           WithExample(D(<< <<"allOf", L(<<StatusSchema>>)>> >>), D(<<>>)) }
    \cup StepSchemas
    \cup MergeSchemas

GenNames == { None, S("id"), S("userName"), S("status"), S("createdAt"), S("pageCount") }

GenInit ==
    /\ spec = ResolveDocument
    /\ endpoints = NotRun
    /\ prev_endpoints = NotRun
    /\ parses = 0
    /\ rr = IdleResolve
    /\ gen \in { [schema |-> schema, name |-> name, result |-> NotRun] :
                   schema \in GenSchemas, name \in GenNames }
    /\ toc = IdleToc
    /\ docs = IdleDocs
    /\ ex = IdleExtract
    /\ dg = IdleDocGen

\* a call of generate_from_schema(gen.schema, gen.name)
Generate(rnd) ==
    /\ gen' = [gen EXCEPT !.result = GenerateFromSchema(gen.schema, gen.name, rnd),
                           !.schema = SchemaAfterGenerate(gen.schema)]
    /\ UNCHANGED <<spec, endpoints, prev_endpoints, parses, rr, toc, docs, ex, dg>>

GenNext == \E rnd \in Oracles : Generate(rnd)

GenSpec == GenInit /\ [][GenNext]_vars

-----------------------------------------------------------------------------
(* TOCGenerator (toc_generator.py) *)

\* endpoint.tags[0] if endpoint.tags else "Untagged", line 195; the tags of
\* the documents here are strings
TagOf(endpoint) ==
    IF ~Truthy(endpoint.tags) THEN S("Untagged")
    ELSE IF IsStr(Index0(endpoint.tags)) THEN Index0(endpoint.tags)
    ELSE Raise

\* _group_endpoints_by_tag(endpoints), from the i-th endpoint on
RECURSIVE GroupEndpointsByTag(_, _, _)
GroupEndpointsByTag(endpoint_list, i, grouped) ==
    IF i > Len(endpoint_list) THEN grouped
    ELSE IF TagOf(endpoint_list[i]) = Raise THEN Raise
    ELSE GroupEndpointsByTag(
             endpoint_list, i + 1,
             DSet(grouped, TagOf(endpoint_list[i]).s,
                  L(Append(DGet(grouped, TagOf(endpoint_list[i]).s, L(<<>>)).xs,
                           endpoint_list[i]))))

\* as EndpointBefore, were the path compared first
EndpointBeforeByPath(a, b) ==
    \/ StrLess(a.path.s, b.path.s)
    \/ a.path.s = b.path.s /\ StrLess(Upper(a.method.s), Upper(b.method.s))

\* (a.method.upper(), a.path) < (b.method.upper(), b.path), line 213
EndpointBefore(a, b) ==
    \/ StrLess(Upper(a.method.s), Upper(b.method.s))
    \/ Upper(a.method.s) = Upper(b.method.s) /\ StrLess(a.path.s, b.path.s)

\* sorted(endpoints, key=...): an endpoint goes before the first one it is
\* less than
RECURSIVE InsertEndpoint(_, _)
InsertEndpoint(sorted, endpoint) ==
    IF sorted = <<>> THEN <<endpoint>>
    ELSE IF EndpointBefore(endpoint, Head(sorted)) THEN <<endpoint>> \o sorted
    ELSE <<Head(sorted)>> \o InsertEndpoint(Tail(sorted), endpoint)

\* _sort_endpoints_by_method(endpoints), from the i-th endpoint on
RECURSIVE SortEndpointsByMethod(_, _, _)
SortEndpointsByMethod(endpoint_list, i, sorted) ==
    IF i > Len(endpoint_list) THEN sorted
    ELSE SortEndpointsByMethod(endpoint_list, i + 1, InsertEndpoint(sorted, endpoint_list[i]))

\* sorted(endpoints_by_tag.keys()), line 100
RECURSIVE InsertTag(_, _)
InsertTag(sorted, tag) ==
    IF sorted = <<>> THEN <<tag>>
    ELSE IF StrLess(tag, Head(sorted)) THEN <<tag>> \o sorted
    ELSE <<Head(sorted)>> \o InsertTag(Tail(sorted), tag)

RECURSIVE SortedTags(_, _, _)
SortedTags(tag_names, i, sorted) ==
    IF i > Len(tag_names) THEN sorted
    ELSE SortedTags(tag_names, i + 1, InsertTag(sorted, tag_names[i]))

\* _format_page_string(yaml_filename, method, path)
FormatPageString(base, yaml_filename, method, path) ==
    base \o "/" \o yaml_filename \o " " \o Upper(method) \o " " \o path

\* the page strings of a list of endpoints, lines 87-91 and 107-114
PageStrings(base, yaml_filename, endpoint_list) ==
    LET sorted_endpoints == SortEndpointsByMethod(endpoint_list, 1, <<>>)
    IN L([i \in 1..Len(sorted_endpoints) |->
            S(FormatPageString(base, yaml_filename, sorted_endpoints[i].method.s,
                               sorted_endpoints[i].path.s))])

\* OpenAPIParser.api_title, line 104, as get_api_info returns it
ApiTitle(doc) == DGet(DGet(doc, "info", D(<<>>)), "title", S("API"))

\* as ShouldFlatten, were a single tag enough
ShouldFlattenSingleTag(tag_names, api_title) == Len(tag_names) = 1

\* lines 78-82
ShouldFlatten(tag_names, api_title) ==
    Len(tag_names) = 1 /\ Lower(tag_names[1]) = Lower(api_title.s)

\* the entry generate_toc_for_file builds from the grouped endpoints,
\* lines 84-122
TocEntry(base, yaml_filename, api_title, grouped) ==
    IF grouped = Raise \/ ~IsStr(api_title) THEN Raise
    ELSE IF ShouldFlatten(DKeys(grouped), api_title)
    THEN D(<< <<"group", api_title>>,
              <<"pages", PageStrings(base, yaml_filename, grouped.kv[1][2].xs)>> >>)
    ELSE LET tags == SortedTags(DKeys(grouped), 1, <<>>)
         IN D(<< <<"group", api_title>>,
                 <<"pages",
                   L([i \in 1..Len(tags) |->
                        D(<< <<"group", S(tags[i])>>,
                             <<"pages", PageStrings(base, yaml_filename,
                                                    DGet(grouped, tags[i], None).xs)>> >>)])>> >>)

\* generate_toc_for_file(yaml_path), given what parse_all_endpoints returned
GenerateTocForFile(base, yaml_filename, doc, parsed) ==
    IF parsed = Raise THEN Raise
    ELSE TocEntry(base, yaml_filename, ApiTitle(doc),
                  GroupEndpointsByTag(parsed.xs, 1, D(<<>>)))

\* The documents the TOC is generated from: the paths of a document in
\* some order, each operation with the tags a scheme gives it.
TocSchemes == {"title", "lower", "byMethod", "byPath", "untagged", "other"}

TocTags(scheme, path, method) ==
    CASE scheme = "title" -> L(<<S("Widgets")>>)
      [] scheme = "lower" -> L(<<S("widgets"), S("Widgets")>>)
      [] scheme = "other" -> L(<<S("Admin")>>)
      [] scheme = "byMethod" ->
            IF method = "get" THEN L(<<S("Widgets"), S("Admin")>>)
            ELSE IF method = "post" THEN L(<<S("Admin"), S("Widgets")>>)
            ELSE L(<<>>)
      [] scheme = "byPath" ->
            IF path = "/a" THEN L(<<S("Zeta")>>) ELSE L(<<S("alpha")>>)
      [] OTHER -> NotRun

\* an operation with the tags of the scheme; no tags key if it gives none
TocOperation(scheme, path, method) ==
    D(<< <<"operationId", S(method \o path)>> >>
      \o (IF TocTags(scheme, path, method) = NotRun THEN <<>>
          ELSE << <<"tags", TocTags(scheme, path, method)>> >>)
      \o << <<"responses", Only200(StatusSchema)>> >>)

TocPathItem(scheme, path) ==
    LET item == PathItem(path, None)
    IN D([i \in 1..Len(item.kv) |->
            IF item.kv[i][2] = None
            THEN <<item.kv[i][1], TocOperation(scheme, path, item.kv[i][1])>>
            ELSE item.kv[i]])

TocTitles == { S("Widgets"), S("Store"), NotRun }

\* title = NotRun stands for "no title key"
TocDocument(title, order, scheme) ==
    D(<< <<"openapi", S("3.0.0")>>,
         <<"info", D((IF title = NotRun THEN <<>> ELSE << <<"title", title>> >>)
                     \o << <<"version", S("1.0.0")>> >>)>>,
         <<"paths", D([i \in DOMAIN order |-> <<order[i], TocPathItem(scheme, order[i])>>])>> >>)

TocDocuments ==
    { TocDocument(title, order, scheme) :
        title \in TocTitles, order \in PathOrders, scheme \in TocSchemes }

\* the base paths a TOCGenerator is made with
TocBasePaths == {"openapi/product", "docs/"}

\* TOCGenerator(openapi_base_path), and the file generate_toc_for_file is
\* called on, as OpenAPIParser.__init__ loads it
TocInit ==
    /\ spec \in { FixSpecIssues(doc) : doc \in TocDocuments }
    /\ endpoints = NotRun
    /\ prev_endpoints = NotRun
    /\ parses = 0
    /\ rr = IdleResolve
    /\ gen = IdleGenerate
    /\ toc \in { [base |-> RStrip(base, "/"), filename |-> "widgets.yaml", result |-> NotRun] :
                   base \in TocBasePaths }
    /\ docs = IdleDocs
    /\ ex = IdleExtract
    /\ dg = IdleDocGen

\* a call of generate_toc_for_file(yaml_path): it makes a parser of its own
\* for the file and parses it
GenerateToc(rnd) ==
    /\ endpoints' = ParseAllEndpoints(spec, rnd)
    /\ spec' = SpecAfterParse(spec)
    /\ toc' = [toc EXCEPT !.result = GenerateTocForFile(toc.base, toc.filename, spec,
                                                        endpoints')]
    /\ UNCHANGED <<prev_endpoints, parses, rr, gen, docs, ex, dg>>

TocNext == \E rnd \in Oracles : GenerateToc(rnd)

TocSpec == TocInit /\ [][TocNext]_vars

-----------------------------------------------------------------------------
(* DocsJsonManager (docs_json_manager.py).  _data is the value json.load   *)
(* gave; find_product_apis_pages returns an object held by _data, which is *)
(* written in place: the place is the path of keys and positions that      *)
(* leads to it.                                                            *)

Key(k) == [key |-> k, index |-> 0]
At(i) == [key |-> "", index |-> i]

\* the object a path leads to
RECURSIVE GetAt(_, _)
GetAt(v, path) ==
    IF path = <<>> THEN v
    ELSE IF Head(path).index = 0 THEN GetAt(DGet(v, Head(path).key, None), Tail(path))
    ELSE GetAt(v.xs[Head(path).index], Tail(path))

\* the value with the object a path leads to set to new
RECURSIVE SetAt(_, _, _)
SetAt(v, path, new) ==
    IF path = <<>> THEN new
    ELSE IF Head(path).index = 0
         THEN DSet(v, Head(path).key, SetAt(DGet(v, Head(path).key, None), Tail(path), new))
    ELSE L([v.xs EXCEPT ![Head(path).index] = SetAt(v.xs[Head(path).index], Tail(path), new)])

\* _find_in_list(items, key, value): the position of the first dict of
\* items with item.get(key) == value, 0 for None
FindInList(items, key, value) ==
    LET found == { i \in 1..Len(items.xs) :
                     IsDict(items.xs[i]) /\ DGet(items.xs[i], key, None) = value }
    IN IF found = {} THEN 0 ELSE CHOOSE i \in found : \A k \in found : i <= k

\* the path to the dict of holder[key] found by _find_in_list, <<>> for None
FoundIn(data, path, key, by, value) ==
    IF path = <<>> THEN <<>>
    ELSE LET items == DGet(GetAt(data, path), key, L(<<>>))
             i == IF IsList(items) THEN FindInList(items, by, value) ELSE 0
         IN IF i = 0 THEN <<>> ELSE path \o <<Key(key), At(i)>>

\* lang_config, lines 124-136
LanguagePath(data, language) ==
    LET navigation == DGet(data, "navigation", D(<<>>))
        languages == DGet(navigation, "languages", L(<<>>))
    IN IF IsList(languages)
       THEN FoundIn(data, <<Key("navigation")>>, "languages", "language", S(language))
       ELSE IF IsDict(languages) /\ Truthy(DGet(languages, language, None))
            THEN <<Key("navigation"), Key("languages"), Key(language)>>
       ELSE <<>>

\* menu_item, lines 146-155: the first item of the tab's menu
MenuItemPath(data, tab_path) ==
    IF tab_path = <<>> THEN <<>>
    ELSE LET menu == DGet(GetAt(data, tab_path), "menu", L(<<>>))
         IN IF ~IsList(menu) \/ ~Truthy(menu) \/ ~Truthy(menu.xs[1]) THEN <<>>
            ELSE tab_path \o <<Key("menu"), At(1)>>

\* the path to the Product APIs group, lines 139-169
ProductApisPath(data, language) ==
    FoundIn(data,
            FoundIn(data,
                    MenuItemPath(data,
                                 FoundIn(data, LanguagePath(data, language),
                                         "tabs", "tab", S("Developer Portal"))),
                    "groups", "group", S("API Reference")),
            "pages", "group", S("Product APIs"))

\* product_apis.get("pages", []), line 173; None when Product APIs was not
\* found
PagesAt(data, path) ==
    IF path = <<>> THEN None ELSE DGet(GetAt(data, path), "pages", L(<<>>))

\* find_product_apis_pages(language): the pages list, or None
FindProductApisPages(data, language) ==
    TheOnly({ PagesAt(data, path) : path \in {ProductApisPath(data, language)} })

\* the position of the first page that is a dict with page.get("group") ==
\* group_name, 0 if there is none (line 200-201)
MatchIndex(pages, group_name) == FindInList(pages, "group", group_name)

\* as ReplacedAt, were the entry inserted before the page (pages.insert)
InsertedAt(pages, i, toc_entry) ==
    L(SubSeq(pages.xs, 1, i - 1) \o <<toc_entry>> \o SubSeq(pages.xs, i, Len(pages.xs)))

\* pages[i] = toc_entry, line 203
ReplacedAt(pages, i, toc_entry) == L([pages.xs EXCEPT ![i] = toc_entry])

\* the pages list after lines 199-209
PagesAfterInsert(pages, group_name, toc_entry) ==
    LET i == MatchIndex(pages, group_name)
    IN IF i > 0 THEN ReplacedAt(pages, i, toc_entry) ELSE L(Append(pages.xs, toc_entry))

\* what insert_or_replace_group returns
InsertReturns(data, language) == B(FindProductApisPages(data, language) # None)

\* _data after insert_or_replace_group(group_name, toc_entry, language).
\* The list written is the one find_product_apis_pages returned: the one
\* Product APIs holds, or the default of get() (line 173), which it does not
\* hold.
WrittenAt(data, path, group_name, toc_entry) ==
    IF ~IsList(PagesAt(data, path)) THEN data
    ELSE IF ~DHas(GetAt(data, path), "pages") THEN data
    ELSE TheOnly({ SetAt(data, path \o <<Key("pages")>>, pages) :
                     pages \in {PagesAfterInsert(PagesAt(data, path), group_name, toc_entry)} })

DataAfterInsert(data, group_name, toc_entry, language) ==
    TheOnly({ WrittenAt(data, path, group_name, toc_entry) :
                path \in {ProductApisPath(data, language)} })

\* the loop of insert_multiple_groups from the i-th entry on: _data and
\* the count of successful calls
RECURSIVE InsertLoop(_, _, _, _, _)
InsertLoop(data, toc_entries, i, successful, language) ==
    IF i > Len(toc_entries) THEN [_data |-> data, successful |-> successful]
    ELSE IF InsertReturns(data, language) = B(TRUE)
         THEN TheOnly({ InsertLoop(after, toc_entries, i + 1, successful + 1, language) :
                          after \in {DataAfterInsert(data, DGet(toc_entries[i], "group",
                                                                S("Unknown")),
                                                     toc_entries[i], language)} })
    ELSE InsertLoop(data, toc_entries, i + 1, successful, language)

\* The docs.json files: the navigation of the tests' fixture, with another
\* language and other tabs, groups and pages beside the ones looked for.
Group(name, pages) == D(<< <<"group", S(name)>>, <<"pages", L(pages)>> >>)

\* the Product APIs group; pages = NotRun stands for "no pages key"
ProductApis(pages) ==
    IF pages = NotRun THEN D(<< <<"group", S("Product APIs")>> >>)
    ELSE D(<< <<"group", S("Product APIs")>>, <<"pages", pages>> >>)

DeveloperPortal(api_reference_pages) ==
    D(<< <<"tab", S("Developer Portal")>>,
         <<"menu", L(<< D(<< <<"item", S("Developer Portal")>>,
                             <<"groups", L(<< Group("Overview", <<S("portal/overview")>>),
                                              Group("API Reference",
                                                    api_reference_pages) >>)>> >>) >>)>> >>)

English(api_reference_pages) ==
    D(<< <<"language", S("en")>>,
         <<"tabs", L(<< D(<< <<"tab", S("Guides")>> >>),
                        DeveloperPortal(api_reference_pages) >>)>> >>)

\* languages as a list (by_language = FALSE) or as a mapping
DocsJson(api_reference_pages, by_language) ==
    D(<< <<"name", S("Docs")>>,
         <<"navigation",
           D(<< <<"languages",
                  IF by_language
                  THEN D(<< <<"fr", D(<< <<"tabs", L(<<>>)>> >>)>>,
                            <<"en", English(api_reference_pages)>> >>)
                  ELSE L(<< D(<< <<"language", S("fr")>>, <<"tabs", L(<<>>)>> >>),
                            English(api_reference_pages) >>)>> >>)>> >>)

ExistingA == Group("A", <<S("openapi/product/a.yaml GET /a")>>)
ExistingB == Group("B", << Group("Users", <<S("openapi/product/b.yaml GET /users")>>) >>)

\* the pages lists Product APIs starts with: group names are unique in all
\* but the last
InitialPages ==
    { L(<<>>),
      L(<<ExistingA>>),
      L(<<S("portal/products"), ExistingA, D(<< <<"page", S("x")>> >>), ExistingB>>),
      L(<<ExistingA, ExistingB, Group("A", <<>>)>>) }

InitialDocs ==
    { DocsJson(<<S("portal/API-Reference/overview"), ProductApis(pages)>>, FALSE) :
        pages \in InitialPages }
    \cup { DocsJson(<<S("portal/API-Reference/overview"), ProductApis(L(<<ExistingA>>))>>, TRUE),
           DocsJson(<<S("portal/API-Reference/overview"), ProductApis(NotRun)>>, FALSE),
           DocsJson(<<S("portal/API-Reference/overview")>>, FALSE) }

\* the entries inserted: two for group A, one for B and for C
DocsEntries ==
    { Group("A", <<S("openapi/product/a.yaml GET /a"), S("openapi/product/a.yaml POST /a")>>),
      Group("A", <<>>),
      ExistingB,
      Group("C", <<S("openapi/product/c.yaml GET /c")>>) }

\* an entry without a group key
Groupless == D(<< <<"pages", L(<<>>)>> >>)

DocsLanguages == {"en", "de"}

MaxInserts == 2      \* calls on one DocsJsonManager

\* the lists insert_multiple_groups is called with
EntryLists ==
    { <<>>,
      <<Group("A", <<>>), Group("C", <<S("openapi/product/c.yaml GET /c")>>)>>,
      <<ExistingB, Groupless, ExistingB>>,
      <<Groupless>> }

\* DocsJsonManager(docs_json_path), then load()
DocsInit ==
    /\ spec = ResolveDocument
    /\ endpoints = NotRun
    /\ prev_endpoints = NotRun
    /\ parses = 0
    /\ rr = IdleResolve
    /\ gen = IdleGenerate
    /\ toc = IdleToc
    /\ docs \in { [_data |-> data, entry |-> NotRun, returned |-> NotRun, calls |-> 0] :
                    data \in InitialDocs }
    /\ ex = IdleExtract
    /\ dg = IdleDocGen

\* insert_or_replace_group(toc_entry["group"], toc_entry, language)
InsertOrReplaceGroup(toc_entry, language) ==
    /\ docs.calls < MaxInserts
    /\ docs' = [_data |-> DataAfterInsert(docs._data, DGet(toc_entry, "group", None),
                                         toc_entry, language),
                entry |-> toc_entry,
                returned |-> InsertReturns(docs._data, language),
                calls |-> docs.calls + 1]
    /\ UNCHANGED <<spec, endpoints, prev_endpoints, parses, rr, gen, toc, ex, dg>>

\* insert_multiple_groups(toc_entries)
InsertMultipleGroups(toc_entries) ==
    /\ docs.calls < MaxInserts
    /\ docs' = [_data |-> InsertLoop(docs._data, toc_entries, 1, 0, "en")._data,
                entry |-> L(toc_entries),
                returned |-> N(InsertLoop(docs._data, toc_entries, 1, 0, "en").successful),
                calls |-> docs.calls + 1]
    /\ UNCHANGED <<spec, endpoints, prev_endpoints, parses, rr, gen, toc, ex, dg>>

DocsNext ==
    \/ \E toc_entry \in DocsEntries : \E language \in DocsLanguages :
           InsertOrReplaceGroup(toc_entry, language)
    \/ \E toc_entries \in EntryLists : InsertMultipleGroups(toc_entries)

DocsSpec == DocsInit /\ [][DocsNext]_vars

-----------------------------------------------------------------------------
(* Author-supplied examples.  Operations whose request body and responses  *)
(* list one or several media types and status codes, with an example in    *)
(* each of the places extract_existing_example looks, or in none; they are *)
(* parsed, and extract_existing_example is called on them.                 *)

FirstSchema ==
    D(<< <<"type", S("object")>>, <<"description", S("<p>First</p>")>>,
         <<"properties", D(<< <<"a", Typed("integer")>> >>)>> >>)

SecondSchema ==
    D(<< <<"type", S("object")>>, <<"description", S("Second")>>,
         <<"required", L(<<S("b")>>)>>,
         <<"properties", D(<< <<"b", Typed("boolean")>> >>)>> >>)

Example1 == D(<< <<"a", N(7)>> >>)
Example2 == D(<< <<"b", B(TRUE)>> >>)
Example3 == S("three")

\* the examples bool() takes for false
FalsyExamples == { D(<<>>), L(<<>>), N(0), S(""), B(FALSE) }

\* a media object: its schema, and an example beside it
WithSchema(schema) == D(<< <<"schema", schema>> >>)
WithExampleBeside(schema, example) == D(<< <<"schema", schema>>, <<"example", example>> >>)

\* the `examples` map of OpenAPI 3.1, with an `example` beside it
WithExamplesMap(schema) ==
    D(<< <<"schema", schema>>,
         <<"examples", D(<< <<"one", D(<< <<"summary", S("One")>>, <<"value", Example1>> >>)>>,
                            <<"two", D(<< <<"value", Example2>> >>)>> >>)>>,
         <<"example", Example3>> >>)

\* the contents of a request body: media types in the order listed
BodyContents ==
    { << <<"application/json", WithSchema(FirstSchema)>> >>,
      << <<"application/json", WithSchema(FirstSchema)>>,
         <<"application/xml", WithSchema(SecondSchema)>> >>,
      << <<"text/plain", D(<<>>)>>,
         <<"application/json", WithSchema(SecondSchema)>> >>,
      << <<"multipart/form-data", WithSchema(D(<<>>))>>,
         <<"application/json", WithSchema(SecondSchema)>>,
         <<"application/xml", WithSchema(FirstSchema)>> >>,
      << <<"application/json", WithExampleBeside(FirstSchema, Example1)>> >>,
      << <<"application/json", WithExamplesMap(FirstSchema)>> >>,
      << <<"application/json", WithSchema(DSet(FirstSchema, "example", Example1))>> >>,
      << <<"application/json", WithSchema(FirstSchema)>>,
         <<"application/xml", WithExampleBeside(SecondSchema, Example2)>> >>,
      << <<"application/json",
           D(<< <<"schema", FirstSchema>>,
                <<"examples", D(<< <<"one", D(<< <<"summary", S("One")>> >>)>> >>)>> >>)>> >> }
    \cup { << <<"application/json", WithExampleBeside(FirstSchema, example)>> >> :
             example \in FalsyExamples }

ResponseWith(content) == D(<< <<"description", S("OK")>>, <<"content", D(content)>> >>)
NoContent == D(<< <<"description", S("Nothing")>> >>)

\* the responses of an operation: status codes in the order listed
ResponseSets ==
    { << <<"200", ResponseWith(<< <<"application/json", WithSchema(FirstSchema)>> >>)>> >>,
      << <<"200", ResponseWith(<< <<"application/json", WithSchema(FirstSchema)>> >>)>>,
         <<"201", ResponseWith(<< <<"application/json",
                                    WithExampleBeside(SecondSchema, Example2)>> >>)>> >>,
      << <<"201", ResponseWith(<< <<"application/json",
                                    WithExampleBeside(SecondSchema, Example2)>> >>)>>,
         <<"200", NoContent>> >>,
      << <<"202", ResponseWith(<< <<"application/json", WithExamplesMap(SecondSchema)>> >>)>>,
         <<"200", ResponseWith(<< <<"application/json",
                                    WithExampleBeside(FirstSchema, Example1)>> >>)>> >>,
      << <<"404", NoContent>> >>,
      << <<"200", ResponseWith(<< <<"application/json", WithSchema(FirstSchema)>>,
                                  <<"application/xml",
                                    WithExampleBeside(SecondSchema, Example2)>> >>)>> >>,
      << <<"202", ResponseWith(<< <<"application/json",
                                    WithSchema(DSet(SecondSchema, "example", Example2))>> >>)>> >>,
      << <<"200", ResponseWith(<< <<"application/json",
                                    WithExampleBeside(FirstSchema, N(0))>> >>)>>,
         <<"201", ResponseWith(<< <<"application/json",
                                    WithExampleBeside(SecondSchema, Example2)>> >>)>> >>,
      << <<"204", NoContent>>,
         <<"201", ResponseWith(<< <<"application/json", WithExamplesMap(FirstSchema)>> >>)>> >> }

ExampleOperations ==
    { Operation("submit", <<>>, D(<< <<"content", D(content)>> >>), D(responses)) :
        content \in BodyContents, responses \in ResponseSets }

\* a document with the one operation, POST /submit
ExampleDocument(operation) ==
    D(<< <<"openapi", S("3.0.0")>>,
         <<"info", D(<< <<"title", S("Widgets")>>, <<"version", S("1.0.0")>> >>)>>,
         <<"paths", D(<< <<"/submit", D(<< <<"post", operation>> >>)>> >>)>> >>)

\* the operation of such a document
SubmitOperation(doc) == DGet(DGet(DGet(doc, "paths", None), "/submit", None), "post", None)

ExampleLocations == {"requestBody", "responses"}

ExampleInit ==
    /\ spec \in { FixSpecIssues(ExampleDocument(operation)) : operation \in ExampleOperations }
    /\ endpoints = NotRun
    /\ prev_endpoints = NotRun
    /\ parses = 0
    /\ rr = IdleResolve
    /\ gen = IdleGenerate
    /\ toc = IdleToc
    /\ docs = IdleDocs
    /\ ex = IdleExtract
    /\ dg = IdleDocGen

\* extract_existing_example(operation, location)
ExtractExisting(location) ==
    /\ ex' = [operation |-> SubmitOperation(spec), location |-> location,
              result |-> ExtractExistingExample(SubmitOperation(spec), location)]
    /\ UNCHANGED <<spec, endpoints, prev_endpoints, parses, rr, gen, toc, docs, dg>>

ExampleNext ==
    \/ \E rnd \in Oracles : ParseAll(rnd)
    \/ \E location \in ExampleLocations : ExtractExisting(location)

ExampleSpec == ExampleInit /\ [][ExampleNext]_vars

-----------------------------------------------------------------------------
(* DocGenerator.process_openapi_to_markdown_deterministic (doc_generator.py) *)
(* as doc_generator_main runs it: one DocGenerator, made at line 24 of       *)
(* doc_generator_main.py, and one task per YAML file on a thread pool.  What *)
(* a task does before line 76 (parsing, one AI request per endpoint) and the *)
(* documents themselves are local to the task; self.current_iteration is     *)
(* the one thing the tasks share.  A task whose call raised goes on to the   *)
(* legacy process_yaml_to_markdown, which has a loop of the same kind on the *)
(* same counter (lines 471-499); the model stops at the raise.               *)

MaxFiles == 2
MaxIterations == 2

\* min(len(yaml_files), 5), doc_generator_main.py line 121
PoolSize(files) == IF files < 5 THEN files ELSE 5

\* completeness_threshold: int = 90, line 24
DefaultThreshold == 90

\* the structure _validate_documentation returns when json.loads raised
\* JSONDecodeError, lines 607-620
FallbackValidation ==
    D(<< <<"scores", D(<< <<"overall", N(75)>>, <<"completeness", N(75)>> >>)>>,
         <<"missing_placeholders", L(<<>>)>>,
         <<"exit_criteria_met", B(TRUE)>> >>)

\* a validation result as the prompt asks for it
Validation(overall, exit_criteria_met) ==
    D(<< <<"scores", D(<< <<"overall", N(overall)>> >>)>>,
         <<"exit_criteria_met", B(exit_criteria_met)>> >>)

\* what _validate_documentation can return: json.loads of what the model
\* answered, which need not be an object, or the fallback
ValidationResults ==
    { Validation(95, TRUE), Validation(95, FALSE), Validation(50, TRUE),
      D(<<>>), FallbackValidation, L(<<>>) }

\* as ShouldExit, were the score alone enough
ShouldExitOnScore(validation_result, threshold) ==
    DGet(DGet(validation_result, "scores", D(<<>>)), "overall", N(0)).n >= threshold

\* _should_exit(validation_result, threshold), lines 650-655
ShouldExit(validation_result, threshold) ==
    /\ DGet(DGet(validation_result, "scores", D(<<>>)), "overall", N(0)).n >= threshold
    /\ Truthy(DGet(validation_result, "exit_criteria_met", B(FALSE)))

\* a task of the pool: where it is, the value it loaded for `+= 1`, the
\* calls of _validate_documentation and _refine_documentation it has made,
\* and its validation_result
QueuedTask ==
    [pc |-> "queued", loaded |-> 0, validations |-> 0, refinements |-> 0,
     validation_result |-> None]

DocGenInit ==
    /\ spec = ResolveDocument
    /\ endpoints = NotRun
    /\ prev_endpoints = NotRun
    /\ parses = 0
    /\ rr = IdleResolve
    /\ gen = IdleGenerate
    /\ toc = IdleToc
    /\ docs = IdleDocs
    /\ ex = IdleExtract
    /\ dg \in { [current_iteration |-> 0, max_iterations |-> max_iterations,
                 workers |-> [w \in 1..files |-> QueuedTask]] :
                  files \in 1..MaxFiles, max_iterations \in 1..MaxIterations }

\* the tasks a thread of the pool is running
Running == { w \in DOMAIN dg.workers : dg.workers[w].pc \notin {"queued", "done", "raised"} }

\* dg with task w at pc
TaskAt(w, pc) == [dg EXCEPT !.workers[w].pc = pc]

DocFrame == UNCHANGED <<spec, endpoints, prev_endpoints, parses, rr, gen, toc, docs, ex>>

\* a thread takes the task and runs it up to line 76:
\* self.current_iteration = 0
ResetCounter(w) ==
    /\ dg.workers[w].pc = "queued"
    /\ Cardinality(Running) < PoolSize(Len(dg.workers))
    /\ dg' = [TaskAt(w, "test") EXCEPT !.current_iteration = 0]
    /\ DocFrame

\* line 77: while self.current_iteration < max_iterations
LoopTest(w) ==
    /\ dg.workers[w].pc = "test"
    /\ dg' = IF dg.current_iteration < dg.max_iterations THEN TaskAt(w, "load")
             ELSE TaskAt(w, "return")
    /\ DocFrame

\* line 78, self.current_iteration += 1: the attribute is loaded
LoadCounter(w) ==
    /\ dg.workers[w].pc = "load"
    /\ dg' = [TaskAt(w, "store") EXCEPT !.workers[w].loaded = dg.current_iteration]
    /\ DocFrame

\* line 78: the sum is stored
StoreCounter(w) ==
    /\ dg.workers[w].pc = "store"
    /\ dg' = [TaskAt(w, "validate") EXCEPT !.current_iteration = dg.workers[w].loaded + 1,
                                          !.workers[w].loaded = 0]
    /\ DocFrame

\* where the task goes after _validate_documentation returned: lines 85-90
\* raise AttributeError unless validation_result is a dict, lines 93-95
\* break if _should_exit
AfterValidation(validation_result) ==
    IF ~IsDict(validation_result) THEN "raised"
    ELSE IF ShouldExit(validation_result, DefaultThreshold) THEN "return"
    ELSE "refine_test"

\* lines 82-95: validation_result = self._validate_documentation(...), the
\* scores are logged, _should_exit is asked
Validate(w, validation_result) ==
    /\ dg.workers[w].pc = "validate"
    /\ dg' = [TaskAt(w, AfterValidation(validation_result)) EXCEPT
                 !.workers[w].validations = @ + 1,
                 !.workers[w].validation_result = validation_result]
    /\ DocFrame

\* line 98: if self.current_iteration < max_iterations
RefineTest(w) ==
    /\ dg.workers[w].pc = "refine_test"
    /\ dg' = IF dg.current_iteration < dg.max_iterations THEN TaskAt(w, "refine")
             ELSE TaskAt(w, "test")
    /\ DocFrame

\* line 100: full_doc = self._refine_documentation(...)
Refine(w) ==
    /\ dg.workers[w].pc = "refine"
    /\ dg' = [TaskAt(w, "test") EXCEPT !.workers[w].refinements = @ + 1]
    /\ DocFrame

\* line 105: return full_doc
Return(w) ==
    /\ dg.workers[w].pc = "return"
    /\ dg' = TaskAt(w, "done")
    /\ DocFrame

DocGenNext ==
    \/ \E w \in DOMAIN dg.workers : ResetCounter(w)
    \/ \E w \in DOMAIN dg.workers : LoopTest(w)
    \/ \E w \in DOMAIN dg.workers : LoadCounter(w)
    \/ \E w \in DOMAIN dg.workers : StoreCounter(w)
    \/ \E w \in DOMAIN dg.workers : \E validation_result \in ValidationResults :
           Validate(w, validation_result)
    \/ \E w \in DOMAIN dg.workers : RefineTest(w)
    \/ \E w \in DOMAIN dg.workers : Refine(w)
    \/ \E w \in DOMAIN dg.workers : Return(w)

DocGenSpec == DocGenInit /\ [][DocGenNext]_vars

-----------------------------------------------------------------------------
(* Properties *)

\* the fixed method list of the claims, as ranks
MethodRank ==
    [get |-> 1, post |-> 2, put |-> 3, delete |-> 4, patch |-> 5, options |-> 6, head |-> 7]

PathsOf(doc) == DGet(doc, "paths", D(<<>>))

\* the (path, method) pairs present in spec.paths
PairsOf(doc) ==
    { <<PathsOf(doc).kv[pm[1]][1], pm[2]>> :
        pm \in { qm \in (1..Len(PathsOf(doc).kv)) \X DOMAIN MethodRank :
                   DHas(PathsOf(doc).kv[qm[1]][2], qm[2]) } }

\* the position of a path in the document
PathRank(doc, path) ==
    CHOOSE p \in 1..Len(PathsOf(doc).kv) : PathsOf(doc).kv[p][1] = path

\* the endpoints a call returned, when it returned
Returned(result) == IF IsList(result) THEN result.xs ELSE <<>>

\* C1: parse_all_endpoints() returns exactly one EndpointData per
\* (path, method) pair of spec.paths, paths in document order and, within a
\* path, methods in the order get, post, put, delete, patch, options, head.
C1_EndpointOrder ==
    IsList(endpoints) =>
        LET eps == endpoints.xs
        IN /\ Len(eps) = Cardinality(PairsOf(spec))
           /\ \A i \in 1..Len(eps) : <<eps[i].path.s, eps[i].method.s>> \in PairsOf(spec)
           /\ \A i, j \in 1..Len(eps) :
                 i < j =>
                    \/ PathRank(spec, eps[i].path.s) < PathRank(spec, eps[j].path.s)
                    \/ /\ eps[i].path = eps[j].path
                       /\ MethodRank[eps[i].method.s] < MethodRank[eps[j].method.s]

\* paths [/b, /a], each defining get and post, came back as
\* /b GET, /b POST, /a GET, /a POST
C1_Witness ==
    /\ IsList(endpoints)
    /\ DKeys(PathsOf(spec)) = <<"/b", "/a">>
    /\ [i \in 1..Len(endpoints.xs) |-> <<endpoints.xs[i].path.s, endpoints.xs[i].method.s>>]
          = << <<"/b", "get">>, <<"/b", "post">>, <<"/a", "get">>, <<"/a", "post">> >>

\* C2: a _resolve_ref call with depth budget d makes at most d recursive
\* calls, each with a budget one smaller and never a negative one, and what
\* it returns is a schema (a finite mapping of the document or a stub), also
\* when a component schema aliases itself directly or through another.
C2_ResolveBounded ==
    rr.pc # "idle" =>
        /\ rr.depth >= 0
        /\ rr.hops + rr.depth = rr.budget
        /\ rr.hops <= rr.budget
        /\ rr.pc = "done" => IsDict(rr.result)

\* the indirect cycle Ping -> Pong -> Ping, cut after 3 recursive calls
C2_Witness ==
    /\ rr.pc = "done"
    /\ rr.ref0 = S(SchemaPrefix \o "Ping")
    /\ rr.budget = 3
    /\ rr.hops = 3
    /\ rr.result = DepthStub

\* the operations of the document, each with its path item
OperationsOf(doc) ==
    { [path |-> pm[1], method |-> pm[2],
       item |-> DGet(PathsOf(doc), pm[1], None),
       operation |-> DGet(DGet(PathsOf(doc), pm[1], None), pm[2], None)] :
        pm \in PairsOf(doc) }

\* the endpoints returned for a (path, method) pair
EndpointsFor(result, path, method) ==
    { Returned(result)[i] : i \in { k \in 1..Len(Returned(result)) :
        /\ Returned(result)[k].path = S(path)
        /\ Returned(result)[k].method = S(method) } }

\* the schema of the request body of an operation: that of its first media
\* type (the documents here give a request body one media type)
BodySchemaOf(operation) ==
    LET body == DGet(operation, "requestBody", D(<<>>))
        content == DGet(body, "content", D(<<>>))
    IN IF content.kv = <<>> THEN None
       ELSE DGet(content.kv[1][2], "schema", None)

HasRefKey(v) == IsDict(v) /\ DHas(v, "$ref")

\* C3: no EndpointData returned keeps a `$ref` marker: request_body_schema
\* is absent or a schema node with no `$ref` key at its own level.
C3_NoRefInRequestBodySchema ==
    \A i \in 1..Len(Returned(endpoints)) :
        ~HasRefKey(Returned(endpoints)[i].request_body_schema)

\* C4: whatever the shape of one schema of the document, the parse returns,
\* and with an EndpointData for every (path, method) pair.
C4_ParseSurvivesMalformedSchema ==
    endpoints # NotRun =>
        /\ IsList(endpoints)
        /\ Len(endpoints.xs) = Cardinality(PairsOf(spec))

NullableBases == {"Widget", "Part"}

\* the schema is a `$ref` to <base>_Nullable
IsNullableRef(schema, base) ==
    IsDict(schema) /\ DGet(schema, "$ref", None) = S(SchemaPrefix \o base \o "_Nullable")

StubFor(base) ==
    D(<< <<"type", S("object")>>,
         <<"description", S("Optional " \o base \o " object (nullable)")>> >>)

\* the parameters of an operation: the path item's, then its own
ParametersOf(o) ==
    DGet(o.item, "parameters", L(<<>>)).xs \o DGet(o.operation, "parameters", L(<<>>)).xs

\* the records of an endpoint's three parameter lists
ParameterRecords(ep) ==
    { ep.path_parameters.xs[i] : i \in 1..Len(ep.path_parameters.xs) }
    \cup { ep.query_parameters.xs[i] : i \in 1..Len(ep.query_parameters.xs) }
    \cup { ep.header_parameters.xs[i] : i \in 1..Len(ep.header_parameters.xs) }

BodyRecords(ep) ==
    { ep.request_body_parameters.xs[i] : i \in 1..Len(ep.request_body_parameters.xs) }

\* C5: a parameter schema or request-body property that is a `$ref` to
\* <Base>_Nullable is replaced by exactly {type: object, description:
\* "Optional <Base> object (nullable)"}, and the record built from it shows
\* nothing of <Base>: type object, an empty example, no enum, and for a
\* property the stub's description.
C5_NullableStub ==
    \A o \in OperationsOf(spec) : \A base \in NullableBases :
        /\ \A i \in 1..Len(ParametersOf(o)) :
              LET param == ParametersOf(o)[i]
              IN IsNullableRef(DGet(param, "schema", None), base) =>
                    /\ ParameterSchema(param) = StubFor(base)
                    /\ \A ep \in EndpointsFor(endpoints, o.path, o.method) :
                       \A rec \in ParameterRecords(ep) :
                          DGet(rec, "name", None) = DGet(param, "name", None) =>
                             /\ DGet(rec, "type", None) = S("object")
                             /\ DGet(rec, "example", None) = D(<<>>)
                             /\ DGet(rec, "enum", None) = L(<<>>)
                             /\ DGet(rec, "default", S("")) = None
        /\ LET schema == BodySchemaOf(o.operation)
               properties == IF IsDict(schema) THEN DGet(schema, "properties", D(<<>>))
                             ELSE D(<<>>)
           IN IsDict(properties) =>
              \A k \in 1..Len(properties.kv) :
                 IsNullableRef(properties.kv[k][2], base) =>
                    /\ PropertySchema(spec, properties.kv[k][2]) = StubFor(base)
                    /\ \A ep \in EndpointsFor(endpoints, o.path, o.method) :
                       \A rec \in BodyRecords(ep) :
                          DGet(rec, "name", None) = S(properties.kv[k][1]) =>
                             rec = D(<< <<"name", S(properties.kv[k][1])>>,
                                        <<"type", S("object")>>,
                                        <<"required", B(FALSE)>>,
                                        <<"description",
                                          S("Optional " \o base \o " object (nullable)")>>,
                                        <<"example", D(<<>>)>>,
                                        <<"enum", L(<<>>)>> >>)

\* a parse returned the records of a parameter and of a property that refer
\* to Widget_Nullable
C5_Witness ==
    \E i \in 1..Len(Returned(endpoints)) :
        /\ \E rec \in ParameterRecords(Returned(endpoints)[i]) :
              /\ DGet(rec, "name", None) = S("widget")
              /\ DGet(rec, "type", None) = S("object")
        /\ \E rec \in BodyRecords(Returned(endpoints)[i]) :
              /\ DGet(rec, "name", None) = S("owner")
              /\ DGet(rec, "description", None) = S("Optional Widget object (nullable)")
        /\ \E o \in OperationsOf(spec) : \E k \in 1..Len(ParametersOf(o)) :
              IsNullableRef(DGet(ParametersOf(o)[k], "schema", None), "Widget")

\* the reference does not start with #/components/schemas/, or the name it
\* ends with is not a key of components.schemas
BadRef(doc, ref_path) ==
    /\ IsStr(ref_path)
    /\ \/ ~StartsWith(ref_path.s, "#/components/schemas/")
       \/ \A k \in 1..Len(ComponentsSchemas(doc).kv) :
             ComponentsSchemas(doc).kv[k][1] # LastSegment(ref_path.s, "/")

\* C6 as stated: for every depth budget >= 0, a reference with another
\* prefix or to an absent schema resolves to exactly {type: object}.
C6_FallbackAtAnyDepth ==
    (rr.pc = "done" /\ BadRef(spec, rr.ref0)) => rr.result = FallbackSchema

\* C6 as amended: for every depth budget >= 1, a reference with another
\* prefix or to an absent schema resolves, without a recursive call, to
\* exactly {type: object}; with budget 0 the depth stub comes back instead.
C6_FallbackAtPositiveDepth ==
    (rr.pc = "done" /\ BadRef(spec, rr.ref0)) =>
        /\ rr.hops = 0
        /\ rr.budget >= 1 => rr.result = FallbackSchema
        /\ rr.budget = 0 => rr.result = DepthStub

\* both kinds of bad reference resolved with a positive budget
C6_Witness ==
    /\ rr.pc = "done"
    /\ rr.budget >= 1
    /\ rr.ref0 \in {S("#/definitions/Widget"), S(SchemaPrefix \o "Missing")}
    /\ rr.result = FallbackSchema

\* the values that differ from one call to the next: a generated UUID and
\* the renderings of the current time
VolatileStrings ==
    UNION { {o.uuid, o.iso \o "Z", o.date, IntToStr(o.ms)} : o \in Oracles }

VolatileInts == { o.ms : o \in Oracles }

Volatile == [t |-> "volatile"]

\* the value with every generated UUID and current-timestamp value blanked
RECURSIVE Mask(_)
Mask(v) ==
    CASE v.t = "str" -> IF v.s \in VolatileStrings THEN Volatile ELSE v
      [] v.t = "int" -> IF v.n \in VolatileInts THEN Volatile ELSE v
      [] v.t = "list" -> L([i \in 1..Len(v.xs) |-> Mask(v.xs[i])])
      [] v.t = "dict" -> D([i \in 1..Len(v.kv) |-> <<v.kv[i][1], Mask(v.kv[i][2])>>])
      [] OTHER -> v

\* the same, field by field, for what parse_all_endpoints() returned
MaskEndpoints(result) ==
    IF IsList(result)
    THEN L([i \in 1..Len(result.xs) |->
              [f \in DOMAIN result.xs[i] |-> Mask(result.xs[i][f])]])
    ELSE result

\* C7: two calls of parse_all_endpoints() on one document return sequences
\* of equal length, equal in every field once the generated UUIDs and the
\* current-timestamp values are set aside.
C7_ParseTwiceEqual ==
    parses >= 2 =>
        /\ IsList(endpoints) <=> IsList(prev_endpoints)
        /\ Len(Returned(endpoints)) = Len(Returned(prev_endpoints))
        /\ MaskEndpoints(endpoints) = MaskEndpoints(prev_endpoints)

\* two parses of one document that differ, and only in such values
C7_Witness ==
    /\ parses = 2
    /\ IsList(endpoints) /\ IsList(prev_endpoints)
    /\ Len(endpoints.xs) >= 2
    /\ endpoints # prev_endpoints
    /\ MaskEndpoints(endpoints) = MaskEndpoints(prev_endpoints)

\* the elements of s at the positions of keep, in order
RECURSIVE Pick(_, _, _)
Pick(s, keep, i) ==
    IF i > Len(s) THEN <<>>
    ELSE (IF i \in keep THEN <<s[i]>> ELSE <<>>) \o Pick(s, keep, i + 1)

Elements(s) == { s[i] : i \in 1..Len(s) }

\* an object schema without example, enum or composition keywords, whose
\* properties are a mapping of schemas and whose required is a list of names
PlainObject(schema) ==
    /\ IsDict(schema)
    /\ DGet(schema, "type", None) = S("object")
    /\ \A k \in {"example", "enum", "oneOf", "anyOf", "allOf"} : ~DHas(schema, k)
    /\ IsDict(DGet(schema, "properties", D(<<>>)))
    /\ IsList(DGet(schema, "required", L(<<>>)))
    /\ \A name \in Elements(DGet(schema, "required", L(<<>>)).xs) : IsStr(name)
    /\ \A i \in 1..Len(DGet(schema, "properties", D(<<>>)).kv) :
          IsDict(DGet(schema, "properties", D(<<>>)).kv[i][2])

\* the names under required that properties declares, in required order,
\* each once
RequiredKeys(schema) ==
    LET required == [i \in 1..Len(DGet(schema, "required", L(<<>>)).xs) |->
                        DGet(schema, "required", L(<<>>)).xs[i].s]
        declared == Elements(DKeys(DGet(schema, "properties", D(<<>>))))
    IN Pick(required,
            { i \in 1..Len(required) :
                /\ required[i] \in declared
                /\ \A j \in 1..(i - 1) : required[j] # required[i] }, 1)

\* the properties not under required, in property order
NonRequiredKeys(schema) ==
    LET names == DKeys(DGet(schema, "properties", D(<<>>)))
        required == Elements(DGet(schema, "required", L(<<>>)).xs)
    IN Pick(names, { i \in 1..Len(names) : S(names[i]) \notin required }, 1)

\* C8: the example of an object schema without example, enum or composition
\* keywords has as keys the required names that properties declares, in
\* required order, then the first min(3, n) of the n non-required
\* properties in property order, and no other.
C8_ObjectExampleKeys ==
    (gen.result # NotRun /\ PlainObject(gen.schema)) =>
        LET n == Len(NonRequiredKeys(gen.schema))
        IN /\ IsDict(gen.result)
           /\ DKeys(gen.result) =
                 RequiredKeys(gen.schema)
                 \o SubSeq(NonRequiredKeys(gen.schema), 1, IF n < 3 THEN n ELSE 3)

\* required [id] and properties id, name, extra1 .. extra4: id and three more
C8_Witness ==
    /\ PlainObject(gen.schema)
    /\ DGet(gen.schema, "required", None) = L(<<S("id")>>)
    /\ DKeys(DGet(gen.schema, "properties", None))
          = <<"id", "name", "extra1", "extra2", "extra3", "extra4">>
    /\ IsDict(gen.result)
    /\ DKeys(gen.result) = <<"id", "name", "extra1", "extra2">>

\* C9: a schema node with an `example` key yields that value unchanged,
\* whatever the property name and whatever other keywords the node carries.
C9_ExampleVerbatim ==
    (gen.result # NotRun /\ IsDict(gen.schema) /\ DHas(gen.schema, "example")) =>
        gen.result = DGet(gen.schema, "example", None)

\* the example {"foo": 1} came back from a node that is also typed
C9_Witness ==
    /\ IsDict(gen.schema)
    /\ DHas(gen.schema, "type")
    /\ DGet(gen.schema, "example", None) = D(<< <<"foo", N(1)>> >>)
    /\ gen.result = D(<< <<"foo", N(1)>> >>)

\* the one response schema of a document with a single path defining only
\* get and nothing else, whose only response is "200" with one media type
\* carrying a schema and no example; None for any other document
SingleGetSchema(doc) ==
    LET paths == PathsOf(doc)
        item == paths.kv[1][2]
        operation == DGet(item, "get", None)
        responses == DGet(operation, "responses", None)
        content == DGet(responses.kv[1][2], "content", None)
    IN IF /\ Len(paths.kv) = 1
          /\ DKeys(item) = <<"get">>
          /\ DGet(operation, "parameters", L(<<>>)) = L(<<>>)
          /\ ~DHas(operation, "requestBody")
          /\ IsDict(responses) /\ DKeys(responses) = <<"200">>
          /\ IsDict(content) /\ Len(content.kv) = 1
          /\ DKeys(content.kv[1][2]) = <<"schema">>
       THEN content.kv[1][2].kv[1][2]
       ELSE None

\* C10: for a document with a single path defining only get, whose only
\* response is "200" with one media type carrying an object schema and no
\* author-supplied example, the parse returns exactly one EndpointData, with
\* that path, method get, success_status_code "200" and as
\* success_response_example the generator's example for the schema.
C10_SingleGetEndpoint ==
    LET schema == SingleGetSchema(spec)
    IN (/\ endpoints # NotRun
        /\ IsDict(schema)
        /\ DGet(schema, "type", None) = S("object")
        /\ ~DHas(schema, "example")
        /\ \A rnd \in Oracles : GenerateFromSchema(schema, None, rnd) # Raise) =>
           /\ IsList(endpoints)
           /\ Len(endpoints.xs) = 1
           /\ endpoints.xs[1].path = S(PathsOf(spec).kv[1][1])
           /\ endpoints.xs[1].method = S("get")
           /\ endpoints.xs[1].success_status_code = S("200")
           /\ \E rnd \in Oracles :
                 endpoints.xs[1].success_response_example
                    = GenerateFromSchema(schema, None, rnd)
           /\ schema = StatusSchema =>
                 endpoints.xs[1].success_response_example
                    = D(<< <<"status", S("ok")>> >>)

\* the parse of the document whose response schema is {status: enum [ok]}
C10_Witness ==
    /\ SingleGetSchema(spec) = StatusSchema
    /\ IsList(endpoints)
    /\ Len(endpoints.xs) = 1
    /\ endpoints.xs[1].success_response_example = D(<< <<"status", S("ok")>> >>)

CompositionKeys == {"oneOf", "anyOf", "allOf"}

\* a node the generator dispatches on by type: no example, enum or
\* composition keyword
DispatchedByType(schema) ==
    /\ IsDict(schema)
    /\ \A k \in {"example", "enum"} \cup CompositionKeys : ~DHas(schema, k)

\* an array schema whose minItems, if given, is an integer and whose items,
\* if given, is a schema the generator has an example for
PlainArray(schema) ==
    /\ DispatchedByType(schema)
    /\ DGet(schema, "type", None) = S("array")
    /\ IsInt(DGet(schema, "minItems", N(1)))
    /\ \A rnd \in Oracles :
          GenerateFromSchema(DGet(schema, "items", D(<<>>)), gen.name, rnd) # Raise

\* C11: the example of an array schema is a list of exactly
\* min(max(minItems, 1), 2) elements, minItems defaulting to 1, each the
\* example of the items schema.
C11_ArrayExampleLength ==
    (gen.result # NotRun /\ PlainArray(gen.schema)) =>
        LET min_items == DGet(gen.schema, "minItems", N(1)).n
            floor == IF min_items > 1 THEN min_items ELSE 1
        IN /\ IsList(gen.result)
           /\ Len(gen.result.xs) = IF floor < 2 THEN floor ELSE 2
           /\ \A i \in 1..Len(gen.result.xs) : \E rnd \in Oracles :
                 gen.result.xs[i]
                    = GenerateFromSchema(DGet(gen.schema, "items", D(<<>>)), gen.name, rnd)

\* minItems 10 gave two integers
C11_Witness ==
    /\ PlainArray(gen.schema)
    /\ DGet(gen.schema, "minItems", None) = N(10)
    /\ gen.name = None
    /\ gen.result = L(<<N(42), N(42)>>)

\* C12 as stated: a node of type boolean without an author-supplied example
\* never yields true.
C12_BooleanNeverTrue ==
    (/\ gen.result # NotRun
     /\ IsDict(gen.schema)
     /\ DGet(gen.schema, "type", None) = S("boolean")
     /\ ~DHas(gen.schema, "example")) =>
        gen.result # B(TRUE)

\* C12 as amended: a node of type boolean without example, enum or
\* composition keyword yields false; with an enum it yields the first
\* enum value, which may be true.
C12_BooleanFalseByType ==
    (/\ gen.result # NotRun
     /\ IsDict(gen.schema)
     /\ DGet(gen.schema, "type", None) = S("boolean")) =>
        /\ DispatchedByType(gen.schema) => gen.result = B(FALSE)
        /\ (~DHas(gen.schema, "example") /\ Truthy(DGet(gen.schema, "enum", None))
              /\ IsList(DGet(gen.schema, "enum", None))) =>
              gen.result = DGet(gen.schema, "enum", None).xs[1]

\* a boolean node with a default of true yielded false
C12_Witness ==
    /\ DispatchedByType(gen.schema)
    /\ DGet(gen.schema, "type", None) = S("boolean")
    /\ DGet(gen.schema, "default", None) = B(TRUE)
    /\ gen.result = B(FALSE)

\* the first of a list of codes that is a key of responses, "" if none is
RECURSIVE FirstPresent(_, _, _)
FirstPresent(codes, responses, i) ==
    IF i > Len(codes) THEN ""
    ELSE IF codes[i] \in Elements(DKeys(responses)) THEN codes[i]
    ELSE FirstPresent(codes, responses, i + 1)

\* the codes of responses that start with "2", in document order
CodesIn2xx(responses) ==
    Pick(DKeys(responses),
         { i \in 1..Len(responses.kv) : SubSeq(responses.kv[i][1], 1, 1) = "2" }, 1)

\* C13: success_status_code is the first of 200, 201, 202, 204 present among
\* the responses, otherwise the first response whose code starts with "2",
\* and is unset only when there is no 2xx response.
C13_SuccessStatusCode ==
    \A o \in OperationsOf(spec) :
    \A ep \in EndpointsFor(endpoints, o.path, o.method) :
        LET responses == DGet(o.operation, "responses", D(<<>>))
            listed == FirstPresent(<<"200", "201", "202", "204">>, responses, 1)
            others == CodesIn2xx(responses)
        IN ep.success_status_code =
              IF listed # "" THEN S(listed)
              ELSE IF others # <<>> THEN S(others[1])
              ELSE None


\* the schema of a response of an operation: that of its first media type
ResponseSchemaOf(operation, code) ==
    LET response == DGet(DGet(operation, "responses", D(<<>>)), code, D(<<>>))
        content == DGet(response, "content", D(<<>>))
    IN IF content.kv = <<>> THEN None
       ELSE DGet(content.kv[1][2], "schema", None)

\* the names of the component schemas that are schemas themselves, not
\* references
PlainComponents(doc) ==
    { name \in { ComponentsSchemas(doc).kv[i][1] : i \in 1..Len(ComponentsSchemas(doc).kv) } :
        ~HasRefKey(DGet(ComponentsSchemas(doc), name, None)) }

\* C17: a `$ref` on a response schema is resolved before anything else of
\* the node is read: the example recorded for an operation whose only
\* success response has as schema a `$ref` to component schema S is an
\* example generated for S.
C17_ResponseRefResolved ==
    \A o \in OperationsOf(spec) : \A name \in PlainComponents(spec) :
        /\ DKeys(DGet(o.operation, "responses", D(<<>>))) = <<"200">>
        /\ ResponseSchemaOf(o.operation, "200") = Ref(name)
        => \A ep \in EndpointsFor(endpoints, o.path, o.method) :
              \E rnd \in Oracles :
                 ep.success_response_example =
                    GenerateFromSchema(DGet(ComponentsSchemas(spec), name, None), None, rnd)


\* C18: a parameter whose schema is a `$ref` to an existing component
\* schema S that is not a nullable wrapper gets the record of S: the type
\* (with format), enum, default and generated example of S.
C18_ParameterRefResolved ==
    \A o \in OperationsOf(spec) : \A name \in PlainComponents(spec) :
    \A i \in 1..Len(ParametersOf(o)) :
        LET param == ParametersOf(o)[i]
            component == DGet(ComponentsSchemas(spec), name, None)
        IN /\ ~Contains(name, "_Nullable")
           /\ IsDict(param)
           /\ DGet(param, "schema", None) = Ref(name)
           => \A ep \in EndpointsFor(endpoints, o.path, o.method) :
              \A rec \in ParameterRecords(ep) :
                 DGet(rec, "name", None) = DGet(param, "name", None) =>
                    /\ DGet(rec, "type", None) = TypeLabel(component)
                    /\ DGet(rec, "enum", None) = DGet(component, "enum", L(<<>>))
                    /\ DGet(rec, "default", S("")) = DGet(component, "default", None)
                    /\ \E rnd \in Oracles :
                          DGet(rec, "example", None) =
                             GenerateFromSchema(component, DGet(param, "name", None), rnd)


\* C19: the nullable shortcut holds in the resolver as it does for
\* parameters and request-body properties: _resolve_ref of
\* "#/components/schemas/<Base>_Nullable", called with a budget that allows
\* a lookup, returns {type: object, description: "Optional <Base> object
\* (nullable)"}.
C19_ResolverNullableStub ==
    \A base \in NullableBases :
        /\ rr.pc = "done"
        /\ rr.ref0 = S(SchemaPrefix \o base \o "_Nullable")
        /\ rr.budget >= 1
        => rr.result = StubFor(base)


\* the name and the type label of the record of a parameter
ParameterSignature(param) ==
    <<DGet(param, "name", S("unnamed")), TypeLabel(ParameterSchema(param))>>

RecordSignatures(records) ==
    [i \in 1..Len(records.xs) |->
        <<DGet(records.xs[i], "name", None), DGet(records.xs[i], "type", None)>>]

\* the parameters of an operation that name the location `in`, in order; a
\* parameter without an `in` field counts as a query parameter (line 186)
ParametersIn(o, in) ==
    Pick([i \in 1..Len(ParametersOf(o)) |-> ParameterSignature(ParametersOf(o)[i])],
         { i \in 1..Len(ParametersOf(o)) :
             DGet(ParametersOf(o)[i], "in", S("query")) = S(in) }, 1)

\* C20: the parameters of an endpoint are the path item's followed by the
\* operation's own, none dropped for having the name of another; each is in
\* the list named by its `in` (path, query, header), in that order, and one
\* with another `in` (cookie) is in no list.
C20_ParameterBuckets ==
    \A o \in OperationsOf(spec) :
    \A ep \in EndpointsFor(endpoints, o.path, o.method) :
        /\ RecordSignatures(ep.path_parameters) = ParametersIn(o, "path")
        /\ RecordSignatures(ep.query_parameters) = ParametersIn(o, "query")
        /\ RecordSignatures(ep.header_parameters) = ParametersIn(o, "header")

\* /c declares header parameter tenant for all its operations; an operation
\* of it that declares tenant again, in header and in query, and a cookie
\* parameter, has both header tenants, the path item's first, and no record
\* of the cookie parameter
C20_Witness ==
    \E i \in 1..Len(Returned(endpoints)) :
        LET ep == Returned(endpoints)[i]
        IN /\ ep.path = S("/c")
           /\ ep.operation_id = S("paramBuckets")
           /\ RecordSignatures(ep.header_parameters)
                 = << <<S("tenant"), S("string")>>, <<S("tenant"), S("integer")>> >>
           /\ RecordSignatures(ep.query_parameters)
                 = << <<S("color"), S("object")>>, <<S("page"), S("integer")>>,
                      <<S("tenant"), S("string")>> >>
           /\ RecordSignatures(ep.path_parameters) = << <<S("widgetId"), S("string (uuid)")>> >>
           /\ \A rec \in ParameterRecords(ep) : DGet(rec, "name", None) # S("session")


\* C14: once __init__ has returned, no call of the parser or of the
\* generator writes to the spec document: it is, after each
\* parse_all_endpoints() call, the document it was before.
C14_SpecReadOnly == [][spec' = spec]_vars

\* a parse has returned on a document whose path item /c has parameters of
\* its own, for operations with parameters, and with a request body whose
\* schema is an allOf of two members with properties
C14_Witness ==
    /\ parses >= 1
    /\ IsList(endpoints)
    /\ \E o \in OperationsOf(spec) :
          /\ DGet(o.item, "parameters", L(<<>>)) # L(<<>>)
          /\ DGet(o.operation, "parameters", L(<<>>)) # L(<<>>)
          /\ IsDict(BodySchemaOf(o.operation))
          /\ LET all_of == DGet(BodySchemaOf(o.operation), "allOf", L(<<>>))
             IN /\ IsList(all_of)
                /\ Len(all_of.xs) = 2
                /\ \A i \in 1..2 : IsDict(all_of.xs[i]) /\ DHas(all_of.xs[i], "properties")
          /\ EndpointsFor(endpoints, o.path, o.method) # {}


\* the first tag of an endpoint, "Untagged" if it has none
FirstTagName(ep) == IF ep.tags = L(<<>>) THEN "Untagged" ELSE ep.tags.xs[1].s

FirstTags == { FirstTagName(ep) : ep \in Elements(Returned(endpoints)) }

WithFirstTag(tag) == { ep \in Elements(Returned(endpoints)) : FirstTagName(ep) = tag }

\* a comes before b by uppercased method, then by path
MethodThenPath(a, b) ==
    LET am == Upper(a.method.s)
        bm == Upper(b.method.s)
    IN StrLess(am, bm) \/ (am = bm /\ StrLess(a.path.s, b.path.s))

\* "<base-path>/<filename> <METHOD> <path>"
Rendered(ep) ==
    S(toc.base \o "/" \o toc.filename \o " " \o Upper(ep.method.s) \o " " \o ep.path.s)

\* pages is the list of the pages of a set of endpoints: one for each,
\* rendered, at the place its method and then its path give it
IsPagesOf(pages, group) ==
    /\ IsList(pages)
    /\ Len(pages.xs) = Cardinality(group)
    /\ \A ep \in group :
          pages.xs[Cardinality({ f \in group : MethodThenPath(f, ep) }) + 1] = Rendered(ep)

\* the pages of toc.result are one group for each first tag, holding the
\* pages of the endpoints with that first tag
PagesInTagGroups ==
    LET pages == DGet(toc.result, "pages", L(<<>>)).xs
    IN /\ Len(pages) = Cardinality(FirstTags)
       /\ \A tag \in FirstTags :
             \E i \in 1..Len(pages) :
                /\ IsDict(pages[i])
                /\ DKeys(pages[i]) = <<"group", "pages">>
                /\ DGet(pages[i], "group", None) = S(tag)
                /\ IsPagesOf(DGet(pages[i], "pages", None), WithFirstTag(tag))

\* C15 as stated: generate_toc_for_file emits one page for each parsed
\* endpoint, in the group named by the endpoint's first tag ("Untagged"
\* without tags), the pages of a group ordered by uppercased method and then
\* by path, each rendered "<base-path>/<filename> <METHOD> <path>".
C15_PagesInTagGroups ==
    IsDict(toc.result) => PagesInTagGroups

\* every endpoint has the same first tag, equal to the API title but for case
SingleTagIsTitle ==
    /\ Cardinality(FirstTags) = 1
    /\ \A tag \in FirstTags : Lower(tag) = Lower(ApiTitle(spec).s)

\* C15, amended: generate_toc_for_file emits one page for each parsed
\* endpoint, rendered "<base-path>/<filename> <METHOD> <path>", ordered by
\* uppercased method and then by path within its group; the group is the
\* one named by the endpoint's first tag ("Untagged" without tags), unless
\* all endpoints share one first tag that is the API title but for case:
\* then the pages are those of the top-level group, named by the title.
C15_PagesInTagGroupsOrFlattened ==
    IsDict(toc.result) =>
        IF SingleTagIsTitle
        THEN /\ DKeys(toc.result) = <<"group", "pages">>
             /\ DGet(toc.result, "group", None) = ApiTitle(spec)
             /\ IsPagesOf(DGet(toc.result, "pages", None), Elements(Returned(endpoints)))
        ELSE PagesInTagGroups

\* paths /b and /a, each with get and post, every operation tagged Admin,
\* in an API titled Store: one group Admin with GET /a, GET /b, POST /a,
\* POST /b
C15_Witness ==
    /\ IsDict(toc.result)
    /\ toc.base = "docs"
    /\ DKeys(PathsOf(spec)) = <<"/b", "/a">>
    /\ DGet(toc.result, "pages", None) =
          L(<< D(<< <<"group", S("Admin")>>,
                    <<"pages", L(<< S("docs/widgets.yaml GET /a"),
                                    S("docs/widgets.yaml GET /b"),
                                    S("docs/widgets.yaml POST /a"),
                                    S("docs/widgets.yaml POST /b") >>)>> >>) >>)


\* the pages list the Product APIs group of data holds for "en", None if
\* there is no such list
HeldPages(data) ==
    TheOnly({ IF path # <<>> /\ DHas(GetAt(data, path), "pages")
                 /\ IsList(PagesAt(data, path))
              THEN PagesAt(data, path) ELSE None :
              path \in {ProductApisPath(data, "en")} })

\* no two pages of the list are groups of one name
UniqueGroups(pages) ==
    \A i, j \in 1..Len(pages.xs) :
        /\ IsDict(pages.xs[i]) /\ DHas(pages.xs[i], "group")
        /\ IsDict(pages.xs[j]) /\ DHas(pages.xs[j], "group")
        /\ DGet(pages.xs[i], "group", None) = DGet(pages.xs[j], "group", None)
        => i = j

\* before is the pages list before insert_or_replace_group(entry.group,
\* entry) and after the one after it: entry took the place of the group of
\* its name, or went last
ReplacedOrAppended(before, after, entry) ==
    LET i == MatchIndex(before, DGet(entry, "group", None))
    IN IF i > 0
       THEN /\ Len(after.xs) = Len(before.xs)
            /\ after.xs[i] = entry
            /\ \A k \in 1..Len(before.xs) : k # i => after.xs[k] = before.xs[k]
       ELSE /\ Len(after.xs) = Len(before.xs) + 1
            /\ after.xs = Append(before.xs, entry)

\* one call on a manager whose Product APIs holds a pages list with unique
\* group names
CallOnUniqueGroups ==
    /\ docs'.calls = docs.calls + 1
    /\ HeldPages(docs._data) # None
    /\ UniqueGroups(HeldPages(docs._data))

\* insert_or_replace_group(entry.group, entry) that found the pages list
InsertStep ==
    /\ CallOnUniqueGroups
    /\ IsDict(docs'.entry)
    /\ docs'.returned = B(TRUE)

\* C16: from a Product APIs pages list with unique group names, a call
\* insert_or_replace_group(entry.group, entry) leaves at most one group per
\* name: the entry replaces the group of its name at the same index, the
\* length unchanged, or else is appended, the length one more; the same call
\* made again changes nothing; and insert_multiple_groups, a sequence of
\* such calls, keeps the group names unique.
C16_InsertOrReplaceKeepsGroupsUnique ==
    [][/\ (InsertStep =>
             /\ HeldPages(docs'._data) # None
             /\ UniqueGroups(HeldPages(docs'._data))
             /\ ReplacedOrAppended(HeldPages(docs._data), HeldPages(docs'._data),
                                   docs'.entry)
             /\ (docs.entry = docs'.entry /\ docs.returned = B(TRUE)
                    => docs'._data = docs._data))
        /\ (CallOnUniqueGroups /\ IsList(docs'.entry) =>
             /\ HeldPages(docs'._data) # None
             /\ UniqueGroups(HeldPages(docs'._data)))]_vars

\* Product APIs held portal/products, group A, a page and group B: a call
\* for A replaced group A where it was, a call for C appended group C
C16_Witness ==
    /\ docs.calls = 2
    /\ docs.returned = B(TRUE)
    /\ docs.entry = Group("C", <<S("openapi/product/c.yaml GET /c")>>)
    /\ HeldPages(docs._data) =
          L(<< S("portal/products"),
               Group("A", <<>>),
               D(<< <<"page", S("x")>> >>),
               ExistingB,
               Group("C", <<S("openapi/product/c.yaml GET /c")>>) >>)


-----------------------------------------------------------------------------
(* Request bodies and author-supplied examples (ExampleSpec) *)

\* the endpoint of POST /submit, once parsed
Submitted == endpoints.xs[1]
SubmitParsed == IsList(endpoints) /\ Len(endpoints.xs) = 1

\* the media types of the request body, in the order listed
BodyContentOf(operation) == DGet(DGet(operation, "requestBody", None), "content", None).kv

\* the operation with only the i-th media type in its request body, with
\* none for i = 0
WithOnlyMedia(operation, i) ==
    DSet(operation, "requestBody",
         D(<< <<"content", D(IF i = 0 THEN <<>> ELSE <<BodyContentOf(operation)[i]>>)>> >>))

\* the endpoint parsed from the operation alone in its document
ParsedAlone(operation, rnd) ==
    ParseAllEndpoints(FixSpecIssues(ExampleDocument(operation)), rnd).xs[1]

\* what the parser takes from the request body's schema
SchemaFields(ep) ==
    <<ep.request_body_schema, ep.request_body_description, ep.request_body_parameters>>

\* the request-body fields of the endpoint are those of the operation with
\* only the i-th media type; the example is compared where it was generated
BodyDerivesFrom(i) ==
    \E rnd \in Oracles :
        /\ SchemaFields(Submitted) = SchemaFields(ParsedAlone(WithOnlyMedia(SubmitOperation(spec), i), rnd))
        /\ ~Truthy(ExtractExistingExample(SubmitOperation(spec), "requestBody"))
           => Submitted.request_body_example =
                  ParsedAlone(WithOnlyMedia(SubmitOperation(spec), i), rnd).request_body_example

FirstWithSchema(content) ==
    IF \E i \in 1..Len(content) : Truthy(DGet(content[i][2], "schema", D(<<>>)))
    THEN CHOOSE i \in 1..Len(content) :
            /\ Truthy(DGet(content[i][2], "schema", D(<<>>)))
            /\ \A k \in 1..(i - 1) : ~Truthy(DGet(content[k][2], "schema", D(<<>>)))
    ELSE 0

PlacedExample(media_obj) ==
    IF DHas(media_obj, "examples") /\ Truthy(DGet(media_obj, "examples", None))
    THEN DGet(DGet(media_obj, "examples", None).kv[1][2], "value", None)
    ELSE IF DHas(media_obj, "example") THEN DGet(media_obj, "example", None)
    ELSE IF DHas(DGet(media_obj, "schema", D(<<>>)), "example")
         THEN DGet(DGet(media_obj, "schema", None), "example", None)
    ELSE None

\* the first present of the 200, 201, 202 responses, None if there is none
FirstSuccessResponse(responses) ==
    IF DHas(responses, "200") THEN DGet(responses, "200", None)
    ELSE IF DHas(responses, "201") THEN DGet(responses, "201", None)
    ELSE DGet(responses, "202", None)

\* the media objects of what the claim has examined
ExaminedMedia(operation, location) ==
    LET holder == IF location = "requestBody" THEN DGet(operation, "requestBody", D(<<>>))
                  ELSE FirstSuccessResponse(DGet(operation, "responses", D(<<>>)))
        content == IF IsDict(holder) THEN DGet(holder, "content", D(<<>>)) ELSE D(<<>>)
    IN { content.kv[i][2] : i \in 1..Len(content.kv) }

\* C22: extract_existing_example(operation, 'responses') examines only the
\* first present of the 200, 201, 202 responses; what it returns is the
\* example of a media type of the examined request body or response (the
\* first value of its examples map, else its example, else its schema's
\* example), and None if that has no example.
C22_FirstPresentResponseOnly ==
    ex.result # NotRun =>
        \/ ex.result \in { PlacedExample(media_obj) :
                             media_obj \in ExaminedMedia(ex.operation, ex.location) }
        \/ /\ ex.result = None
           /\ \A media_obj \in ExaminedMedia(ex.operation, ex.location) :
                  PlacedExample(media_obj) = None


\* C23: request_body_example is generated from the schema only if
\* extract_existing_example returned None: whenever an author-supplied
\* request-body example was extracted, whatever its value ({}, [], 0, "" and
\* false included), request_body_example equals that value.
C23_ExtractedBodyExampleIsKept ==
    SubmitParsed =>
        \/ ExtractExistingExample(SubmitOperation(spec), "requestBody") = None
        \/ Submitted.request_body_example =
               ExtractExistingExample(SubmitOperation(spec), "requestBody")


\* the examples of the response with the given status code: those the parser
\* collected for it (author-supplied and generated) and those its media
\* types carry in the document
ExamplesOfResponse(ep, operation, status_code) ==
    LET parsed == DGet(DGet(ep.responses, status_code.s, D(<<>>)), "examples", L(<<>>))
        response == DGet(DGet(operation, "responses", D(<<>>)), status_code.s, D(<<>>))
        content == DGet(response, "content", D(<<>>))
    IN { parsed.xs[i] : i \in 1..Len(parsed.xs) }
           \cup ({ PlacedExample(content.kv[i][2]) : i \in 1..Len(content.kv) } \ {None})

\* C29: whenever an endpoint has both success_response_example and
\* success_status_code set, the example is one of the author-supplied or
\* generated examples of the response with that status code.
C29_SuccessExampleBelongsToStatus ==
    SubmitParsed =>
        \/ Submitted.success_response_example = None
        \/ Submitted.success_status_code = None
        \/ Submitted.success_response_example
               \in ExamplesOfResponse(Submitted, SubmitOperation(spec),
                                      Submitted.success_status_code)


-----------------------------------------------------------------------------
(* The steps of generate_from_schema (GenSpec)                             *)

\* the alternatives of a node: those of oneOf if it lists any, else those of
\* anyOf
Alternatives(schema) == PyOr(DGet(schema, "oneOf", None), DGet(schema, "anyOf", None))

\* what each step yields for a node
ExampleStep(schema) == DGet(schema, "example", None)
EnumStep(schema) == DGet(schema, "enum", None).xs[1]
AlternativeStep(schema, name, rnd) == GenerateFromSchema(Index0(Alternatives(schema)), name, rnd)
AllOfStep(schema, name, rnd) ==
    GenerateFromSchema(MergeAllOf(DGet(schema, "allOf", None)), name, rnd)

\* the generated value is what the steps from allOf on yield
FromAllOfOn(schema, name, value) ==
    \E rnd \in Oracles :
        value = IF DHas(schema, "allOf") THEN AllOfStep(schema, name, rnd)
                ELSE GenerateByType(schema, name, rnd)

\* a node whose enum, if present, is a list and whose oneOf and anyOf, if
\* present, are lists
ListedKeywords(schema) ==
    /\ IsDict(schema)
    /\ \A k \in {"enum", "oneOf", "anyOf"} : DHas(schema, k) => IsList(DGet(schema, k, None))

\* C24 as stated: the first applicable of the steps decides: example
\* present, non-empty enum, oneOf or anyOf present (the example of the first
\* listed alternative, same property name), allOf present (the example of
\* the merged schema), else the dispatch on type.
C24_FirstApplicableStep ==
    (gen.result # NotRun /\ ListedKeywords(gen.schema)) =>
        IF DHas(gen.schema, "example") THEN gen.result = ExampleStep(gen.schema)
        ELSE IF Truthy(DGet(gen.schema, "enum", None)) THEN gen.result = EnumStep(gen.schema)
        ELSE IF DHas(gen.schema, "oneOf") \/ DHas(gen.schema, "anyOf")
             THEN /\ Truthy(Alternatives(gen.schema))
                  /\ \E rnd \in Oracles :
                        gen.result = AlternativeStep(gen.schema, gen.name, rnd)
        ELSE FromAllOfOn(gen.schema, gen.name, gen.result)

\* C24 as amended: the oneOf/anyOf step applies if oneOf or anyOf lists an
\* alternative; a node whose oneOf and anyOf list none is decided by the
\* later steps.
C24_FirstApplicableStepWithAlternative ==
    (gen.result # NotRun /\ ListedKeywords(gen.schema)) =>
        IF DHas(gen.schema, "example") THEN gen.result = ExampleStep(gen.schema)
        ELSE IF Truthy(DGet(gen.schema, "enum", None)) THEN gen.result = EnumStep(gen.schema)
        ELSE IF Truthy(Alternatives(gen.schema))
             THEN \E rnd \in Oracles : gen.result = AlternativeStep(gen.schema, gen.name, rnd)
        ELSE FromAllOfOn(gen.schema, gen.name, gen.result)

\* a node with allOf [boolean] and oneOf [integer] yielded the integer
C24_Witness ==
    /\ IsDict(gen.schema)
    /\ DKeys(gen.schema) = <<"allOf", "oneOf">>
    /\ gen.name = None
    /\ gen.result = N(42)


\* the members of schemas that have key
Defining(members, key) == { i \in 1..Len(members) : DHas(members[i], key) }

\* the last member of schemas that has key
LastDefining(members, key) ==
    CHOOSE i \in Defining(members, key) : \A j \in Defining(members, key) : j <= i

\* the keys of the value members[i] has under key
KeysUnder(members, i, key) == Elements(DKeys(DGet(members[i], key, D(<<>>))))

\* the names in the list members[i] has under key
NamesUnder(members, i, key) == Elements(DGet(members[i], key, L(<<>>)).xs)

\* merged has as properties the union of the members' properties, a later
\* member's definition replacing an earlier one
PropertiesUnited(members, merged) ==
    LET properties == DGet(merged, "properties", D(<<>>))
    IN /\ Elements(DKeys(properties))
             = UNION { KeysUnder(members, i, "properties") : i \in 1..Len(members) }
       /\ \A name \in Elements(DKeys(properties)) :
             LET last == CHOOSE i \in 1..Len(members) :
                             /\ name \in KeysUnder(members, i, "properties")
                             /\ \A j \in (i + 1)..Len(members) :
                                   name \notin KeysUnder(members, j, "properties")
             IN DGet(properties, name, None)
                    = DGet(DGet(members[last], "properties", None), name, None)

\* merged has as required the union of the members' required names
RequiredUnited(members, merged) ==
    Elements(DGet(merged, "required", L(<<>>)).xs)
        = UNION { NamesUnder(members, i, "required") : i \in 1..Len(members) }

\* every other field of merged holds the value of the last member defining
\* it, and merged has no field that no member defines
OthersFromLast(members, merged) ==
    /\ Elements(DKeys(merged)) = UNION { Elements(DKeys(members[i])) : i \in 1..Len(members) }
    /\ \A key \in Elements(DKeys(merged)) \ {"properties", "required"} :
          DGet(merged, key, None) = DGet(members[LastDefining(members, key)], key, None)

\* a node that generate_from_schema decides by its allOf, whose members are
\* schemas with properties a mapping and required a list, if present
AllOfNode(schema) ==
    /\ IsDict(schema)
    /\ ~DHas(schema, "example") /\ ~Truthy(DGet(schema, "enum", None))
    /\ ~Truthy(Alternatives(schema))
    /\ DHas(schema, "allOf") /\ IsList(DGet(schema, "allOf", None))
    /\ \A i \in 1..Len(DGet(schema, "allOf", None).xs) :
          LET member == DGet(schema, "allOf", None).xs[i]
          IN /\ IsDict(member)
             /\ IsDict(DGet(member, "properties", D(<<>>)))
             /\ IsList(DGet(member, "required", L(<<>>)))

\* a call of generate_from_schema on an allOf node: what _merge_all_of
\* returns is as the claim has it, the node and its members are as they
\* were, and the result is the example of the merged schema
MergeStep ==
    AllOfNode(gen.schema) =>
        /\ PropertiesUnited(DGet(gen.schema, "allOf", None).xs,
                            MergeAllOf(DGet(gen.schema, "allOf", None)))
        /\ RequiredUnited(DGet(gen.schema, "allOf", None).xs,
                          MergeAllOf(DGet(gen.schema, "allOf", None)))
        /\ OthersFromLast(DGet(gen.schema, "allOf", None).xs,
                          MergeAllOf(DGet(gen.schema, "allOf", None)))
        /\ gen'.schema = gen.schema
        /\ \E rnd \in Oracles :
              gen'.result = GenerateFromSchema(MergeAllOf(DGet(gen.schema, "allOf", None)),
                                               gen.name, rnd)

\* C25: merge_all_of(schemas) returns a schema whose properties is the union
\* of the members' properties (a later member's definition replacing an
\* earlier same-named one), whose required is the union of the members'
\* required names, and whose every other field holds the value of the
\* last member defining it; no member is modified; generate on an allOf
\* node returns the example of the merged schema.
C25_MergeAllOf == [][MergeStep]_vars

\* MemberOne and MemberTwo merged: a is a string as MemberTwo has it, and
\* a, b are required
C25_Witness ==
    /\ gen.schema = D(<< <<"allOf", L(<<MemberOne, MemberTwo>>)>> >>)
    /\ gen.name = None
    /\ gen.result = D(<< <<"a", S("example-string")>>, <<"b", B(FALSE)>>, <<"c", F("2.5")>> >>)


\* the types generate_from_schema has an example for
KnownTypes == { S("string"), S("integer"), S("number"), S("boolean"), S("array"), S("object") }

\* C26 as stated: a node with no example, enum or composition keyword whose
\* type is absent or is none of string, integer, number, boolean, array,
\* object yields null.
C26_NullForAbsentOrUnknownType ==
    (/\ gen.result # NotRun
     /\ DispatchedByType(gen.schema)
     /\ DGet(gen.schema, "type", None) \notin KnownTypes) =>
        gen.result = None

\* C26 as amended: such a node yields null if its type is present and none
\* of the six; a node whose type is absent is treated as a string.
C26_NullForUnknownType ==
    (gen.result # NotRun /\ DispatchedByType(gen.schema)) =>
        /\ (DHas(gen.schema, "type") /\ DGet(gen.schema, "type", None) \notin KnownTypes)
              => gen.result = None
        /\ ~DHas(gen.schema, "type")
              => \E rnd \in Oracles :
                    gen.result = GenerateFromSchema(DSet(gen.schema, "type", S("string")),
                                                    gen.name, rnd)

\* a node of type file yielded null
C26_Witness ==
    /\ gen.schema = Typed("file")
    /\ gen.name = S("id")
    /\ gen.result = None


-----------------------------------------------------------------------------
(* The shape of a TOC entry (TocSpec)                                      *)

\* the pages of toc.result
TocPages == DGet(toc.result, "pages", L(<<>>)).xs

\* a flat entry: its pages are page strings
FlatEntry == TocPages # <<>> /\ \A i \in 1..Len(TocPages) : IsStr(TocPages[i])

\* a nested entry: its pages are tag groups, one per tag, in the order of
\* sorted(), which compares strings character by character (an uppercase
\* letter before every lowercase one)
NestedEntry ==
    /\ \A i \in 1..Len(TocPages) :
          /\ IsDict(TocPages[i])
          /\ IsStr(DGet(TocPages[i], "group", None))
          /\ IsList(DGet(TocPages[i], "pages", None))
    /\ { DGet(TocPages[i], "group", None).s : i \in 1..Len(TocPages) } = FirstTags
    /\ \A i \in 1..(Len(TocPages) - 1) :
          StrLess(DGet(TocPages[i], "group", None).s, DGet(TocPages[i + 1], "group", None).s)

\* C27: generate_toc_for_file returns a flat entry (page strings directly
\* under the API-title group) if and only if the endpoints fall into
\* exactly one tag group whose tag equals the API title case-insensitively;
\* in every other case pages is a list of nested tag groups, one per tag,
\* in alphabetical tag order; the outer group is always the API title.
C27_FlatIffSingleTagIsTitle ==
    IsDict(toc.result) =>
        /\ DGet(toc.result, "group", None) = ApiTitle(spec)
        /\ FlatEntry <=> SingleTagIsTitle
        /\ ~SingleTagIsTitle => NestedEntry

\* every operation tagged widgets first in an API titled Widgets: a flat
\* entry
C27_Witness ==
    /\ IsDict(toc.result)
    /\ ApiTitle(spec) = S("Widgets")
    /\ FirstTags = {"widgets"}
    /\ Len(TocPages) = 4
    /\ FlatEntry


-----------------------------------------------------------------------------
(* The validation loop (DocGenSpec)                                        *)

\* the tasks
Tasks == { dg.workers[w] : w \in DOMAIN dg.workers }

\* C28: process_openapi_to_markdown_deterministic makes at most
\* max_iterations validations and at most max_iterations - 1 refinements,
\* stops at the first validation for which _should_exit holds (overall
\* score >= threshold and exit_criteria_met, both), never refines after the
\* last allowed validation, and ends by returning the document.
C28_LoopBoundedAndReturns ==
    \A task \in Tasks :
        /\ task.validations <= dg.max_iterations
        /\ task.refinements <= dg.max_iterations - 1
        /\ task.pc = "refine" => task.validations < dg.max_iterations
        /\ task.pc \in {"refine_test", "refine", "test", "load", "store", "validate"}
              /\ task.validation_result # None
              => ~ShouldExit(task.validation_result, DefaultThreshold)
        /\ task.pc # "raised"

\* C30: with several files processed in parallel through the one
\* DocGenerator, each file's loop makes at least one and at most
\* max_iterations validations under every interleaving.
C30_EachFileValidatedWithinBounds ==
    \A task \in Tasks :
        /\ task.validations <= dg.max_iterations
        /\ task.pc = "done" => task.validations >= 1

=============================================================================
